---- MODULE Spec2Model ----
(***************************************************************************)
(* A verification model of the NEOS core:                                  *)
(*   - the typed service RPC (core/src/distributed/sonic/service.rs) and   *)
(*     its connection pool (core/src/distributed/sonic/connection_pool.rs),*)
(*     exercised with the CounterService of the service tests;             *)
(*   - the DHT client's shard routing (core/src/ampc/dht/client.rs,        *)
(*     core/src/ampc/dht/key.rs).                                          *)
(*   - the DHT client's calls against the tables of a cluster, and the     *)
(*     upsert functions (core/src/ampc/dht/upsert.rs);                     *)
(*   - the DHT client's table management and Node::stream;                 *)
(*   - the start of a DHT node (core/src/entrypoint/ampc/dht.rs);          *)
(*   - the streaming response                                              *)
(*     (core/src/distributed/streaming_response.rs);                       *)
(*   - the AMPC coordinator, its workers and its finisher                  *)
(*     (core/src/ampc/mod.rs for the messages);                            *)
(*   - the indexing job and the webgraph worker                            *)
(*     (core/src/entrypoint/indexer/job.rs, core/src/entrypoint/webgraph.rs)*)
(*     and the merge of the indexes (core/src/entrypoint/indexer/mod.rs);  *)
(*   - the WARC writer, deduplicating writer and reader (core/src/warc.rs)*)
(*     and the download of a WARC file with its retries;                   *)
(*   - the commits of the indexing job (Job::process);                     *)
(*   - the IntMap (core/src/intmap.rs).                                    *)
(* Each subsystem has its own specification (SpecRpc, SpecDht, SpecKv,     *)
(* SpecAdm, SpecAdd, SpecStream, SpecBoot, SpecSr, SpecCoord and           *)
(* SpecCoordFair, SpecIdx, SpecMrg, SpecWarc, SpecMap, SpecCmt, SpecDl and *)
(* SpecDlFair); the variables of the other subsystems stay at their        *)
(* initial values.                                                         *)
(***************************************************************************)
EXTENDS Integers, Sequences, FiniteSets, TLC

VARIABLES
    \* ---- service RPC: client side, one entry per connection ----
    status,      \* "none" not open, "out" held by a caller, "pool" idle in the pool,
                 \* "gone" dropped by the client while the server task still runs
    pooled,      \* TRUE when the connection was opened by the pool's manager
    await_res,   \* Connection.await_res
    closed,      \* the inner stream is closed (what is_closed() reports)
    cpc,         \* position of the caller inside send: "idle" or "sent"
    creq,        \* the frame of the send in progress, with its method
    failed,      \* TRUE when the last send on the connection returned an error
    ret,         \* what the send or the checkout that just returned gave its caller
                 \* (only in the state right after it returned)
    pool,        \* the pool's queue of idle connections
    \* ---- service RPC: wire and server side ----
    inbox,       \* request frames written by the client and not yet read by the server task
    outbox,      \* response frames written by the server task and not yet read by the client
    srv,         \* the task spawned by Server::accept for the connection
    counter,     \* CounterService.counter
    \* ---- service RPC: history ----
    hist,        \* counts and sums over the requests issued and applied so far
    \* ---- DHT client ----
    ids,         \* Client.ids
    shards,      \* Client.shards: ShardId -> sequence of node addresses
    dhtOp,       \* the last routed operation and what it sent
    \* ---- DHT cluster: the tables behind the client ----
    store,       \* per shard, the table its replicas agree on: Key -> Value
    down,        \* the replicas (shard, address) that cannot serve a request now
    kvOp,        \* the client call that has just returned: input and result
    kvHist,      \* counts and sums over the calls made so far
    tables,      \* per replica, the names of the tables it has
    admOp,       \* the table-management call that has just returned
    strm,        \* Node::stream: the table read, the cursor, the items yielded
    addOp,       \* U64Add::upsert: the operands and the outcome
    boot,        \* entrypoint dht::run: the seed's membership and the steps taken
    coord,       \* AMPC coordinator: the round, its tasks and the workers
    ixr,         \* indexer and webgraph jobs: the records and what was inserted
    mrg,         \* indexer merge: the pointers, the chunks and the threads
    warc,        \* WARC writer and reader: the records, the bytes, the items read
    sr,          \* StreamingResponseStream: the source, the buffer, the items yielded
    imap,        \* IntMap: the bins, len, and the inserts made so far
    dl,          \* WarcFile::download_into_buf: the attempts and the waits
    cmt          \* Job::process: the inserts and the commits of one index

rpcVars == <<status, pooled, await_res, closed, cpc, creq, failed, ret, pool,
             inbox, outbox, srv, counter, hist>>
dhtVars == <<ids, shards, dhtOp>>
kvVars == <<store, down, kvOp, kvHist>>
vars == <<status, pooled, await_res, closed, cpc, creq, failed, ret, pool,
          inbox, outbox, srv, counter, hist, ids, shards, dhtOp,
          store, down, kvOp, kvHist, tables, admOp, strm, addOp, boot,
          coord, ixr, mrg, warc, sr, imap, dl, cmt>>

auxVars == <<imap, dl, cmt>>

\* What the actions of one subsystem leave alone.
nonRpcVars == <<dhtVars, kvVars, tables, admOp, strm, addOp, boot,
    coord, ixr, mrg, warc, sr, auxVars>>
nonDhtVars == <<rpcVars, kvVars, tables, admOp, strm, addOp, boot,
    coord, ixr, mrg, warc, sr, auxVars>>
nonKvVars == <<rpcVars, tables, admOp, strm, addOp, boot,
    coord, ixr, mrg, warc, sr, auxVars>>
nonAdmVars == <<rpcVars, dhtOp, store, kvOp, kvHist, strm, addOp, boot,
    coord, ixr, mrg, warc, sr, auxVars>>
nonStrmVars == <<rpcVars, dhtVars, kvVars, tables, admOp, addOp, boot,
    coord, ixr, mrg, warc, sr, auxVars>>
nonAddVars == <<rpcVars, dhtVars, kvVars, tables, admOp, strm, boot,
    coord, ixr, mrg, warc, sr, auxVars>>
nonBootVars == <<rpcVars, dhtVars, kvVars, tables, admOp, strm, addOp,
    coord, ixr, mrg, warc, sr, auxVars>>
dhtSideVars == <<dhtVars, kvVars, tables, admOp, strm, addOp, boot>>
nonCoordVars == <<rpcVars, dhtSideVars, ixr, mrg, warc, sr, auxVars>>
nonIdxVars == <<rpcVars, dhtSideVars, coord, mrg, warc, sr, auxVars>>
nonMrgVars == <<rpcVars, dhtSideVars, coord, ixr, warc, sr, auxVars>>
nonWarcVars == <<rpcVars, dhtSideVars, coord, ixr, mrg, sr, auxVars>>
nonSrVars == <<rpcVars, dhtSideVars, coord, ixr, mrg, warc, auxVars>>
pipeVars == <<coord, ixr, mrg, warc, sr>>
nonMapVars == <<rpcVars, dhtSideVars, pipeVars, dl, cmt>>
nonDlVars == <<rpcVars, dhtSideVars, pipeVars, imap, cmt>>
nonCmtVars == <<rpcVars, dhtSideVars, pipeVars, imap, dl>>

(***************************************************************************)
(* Bounds of the model.                                                    *)
(***************************************************************************)
MaxRequests == 2

\* The connections that can be open at a time; a slot is used again once its
\* connection is dropped and the server task that served it has ended.
Conns == {1, 2}
Amounts == {1}

(***************************************************************************)
(* Generic helpers.                                                        *)
(***************************************************************************)
RECURSIVE SumSeq(_)
SumSeq(s) == IF s = <<>> THEN 0 ELSE Head(s) + SumSeq(Tail(s))

SeqsUpTo(S, n) == UNION {[1..k -> S] : k \in 0..n}

(***************************************************************************)
(* CounterService (service.rs, tests::counter_service).  The counter is an *)
(* AtomicI32; the amounts of the model stay far from the ends of the i32   *)
(* range, so fetch_add never wraps here.                                   *)
(***************************************************************************)
Change(amount) == [kind |-> "Change", amount |-> amount]
Reset == [kind |-> "Reset", amount |-> 0]
Requests == {Change(a) : a \in Amounts} \cup {Reset}

\* Message<CounterService> for Change: fetch_add, then prev + amount.
ChangeHandleStore(cnt, amount) == [counter |-> amount, response |-> amount]
ChangeHandleReturnsPrev(cnt, amount) == [counter |-> cnt + amount, response |-> cnt]
ChangeHandle(cnt, amount) == [counter |-> cnt + amount, response |-> cnt + amount]

\* Message<CounterService> for Reset: store(0), the response is the unit value.
ResetHandle(cnt) == [counter |-> 0, response |-> 0]

\* Wrapper::wrap_request: the request inside its variant of the Request enum.
\* idx is the position of the body in its frame (the order on the wire).
wrap_request(req, idx) == [kind |-> req.kind, amount |-> req.amount, idx |-> idx]

\* Service::handle generated by sonic_service!: dispatch on the variant and
\* wrap the handler's result in the same variant of the Response enum.
ServiceHandle(cnt, body) ==
    LET r == IF body.kind = "Change" THEN ChangeHandle(cnt, body.amount)
                                     ELSE ResetHandle(cnt)
    IN [counter |-> r.counter,
        response |-> [kind |-> body.kind, val |-> r.response, idx |-> body.idx]]

\* Wrapper::unwrap_response: Some(value) for the variant of the request type.
unwrap_response(kind, res) == IF res.kind = kind THEN <<res.val>> ELSE <<>>

(***************************************************************************)
(* Frames and the methods of service::Connection.                          *)
(***************************************************************************)
Methods == {"send", "send_with_timeout", "send_without_timeout", "batch_send_with_timeout"}

NoReq == [tmo |-> FALSE, many |-> FALSE, reqs |-> <<>>, base |-> 0]
NoRet == [op |-> "none", conn |-> 0, many |-> FALSE, reqs |-> <<>>, resp |-> <<>>, base |-> 0,
          fresh |-> FALSE, rejected |-> {}]
SrvWait == [pc |-> "wait", many |-> FALSE, bodies |-> <<>>, res |-> <<>>]
SrvNone == [pc |-> "none", many |-> FALSE, bodies |-> <<>>, res |-> <<>>]
SrvEnded == [pc |-> "ended", many |-> FALSE, bodies |-> <<>>, res |-> <<>>]

\* batch_send_with_timeout takes a slice of one request type R.
Batches ==
    {b \in SeqsUpTo(Requests, MaxRequests) : \A i \in DOMAIN b : b[i].kind = b[1].kind}

\* The responses a lone caller expects for the bodies of one frame, when the
\* changes issued since the last reset sum to s.
RECURSIVE Expect(_, _)
Expect(s, reqs) ==
    IF reqs = <<>> THEN <<>>
    ELSE LET v == IF Head(reqs).kind = "Change" THEN s + Head(reqs).amount ELSE 0
         IN <<v>> \o Expect(v, Tail(reqs))

\* What a send counts for in the model's budget of requests: its bodies, and
\* one for an empty batch.
Cost(reqs) == IF reqs = <<>> THEN 1 ELSE Len(reqs)

RunningSum(s, reqs) == IF reqs = <<>> THEN s ELSE Expect(s, reqs)[Len(reqs)]

ChangeSum(reqs) ==
    SumSeq([i \in DOMAIN reqs |-> IF reqs[i].kind = "Change" THEN reqs[i].amount ELSE 0])

(***************************************************************************)
(* Connection predicates and the manager's recycle.                        *)
(***************************************************************************)
awaiting_response(c) == await_res[c]
is_closed(c) == closed[c]

recycleIgnoresAwait(c) == IF is_closed(c) THEN "Err" ELSE "Ok"
recycleIgnoresClosed(c) == IF awaiting_response(c) THEN "Err" ELSE "Ok"
recycle(c) ==
    IF awaiting_response(c) THEN "Err"
    ELSE IF is_closed(c) THEN "Err"
    ELSE "Ok"

\* Index of the first idle connection of queue q that recycle accepts, 0 if none.
RECURSIVE FirstRecyclable(_, _)
FirstRecyclable(q, i) ==
    IF i > Len(q) THEN 0
    ELSE IF recycle(q[i]) = "Ok" THEN i
    ELSE FirstRecyclable(q, i + 1)

(***************************************************************************)
(* Initial state.                                                          *)
(***************************************************************************)
\* sends: what the sends started so far count for (see Cost).  serial: so far
\* every send started when no other was under way, and none failed.
\* additive: so far every body written is a Change
\* and none was lost to a closed stream.  sinceReset: the sum of the Change
\* amounts written since the last Reset was written; it is followed while
\* serial or additive holds and is 0 afterwards.
HistInit ==
    [sends |-> 0, sinceReset |-> 0, serial |-> TRUE, additive |-> TRUE]

Followed(h) == IF h.serial \/ h.additive THEN h ELSE [h EXCEPT !.sinceReset = 0]

RpcInit ==
    /\ status = [c \in Conns |-> "none"]
    /\ pooled = [c \in Conns |-> FALSE]
    /\ await_res = [c \in Conns |-> FALSE]
    /\ closed = [c \in Conns |-> FALSE]
    /\ cpc = [c \in Conns |-> "idle"]
    /\ creq = [c \in Conns |-> NoReq]
    /\ failed = [c \in Conns |-> FALSE]
    /\ ret = NoRet
    /\ pool = <<>>
    /\ inbox = [c \in Conns |-> <<>>]
    /\ outbox = [c \in Conns |-> <<>>]
    /\ srv = [c \in Conns |-> SrvNone]
    /\ counter = 0
    /\ hist = HistInit

(***************************************************************************)
(* DHT keys (ampc/dht/key.rs).                                             *)
(***************************************************************************)
\* u64::to_le_bytes: the eight bytes of n, least significant first.
RECURSIVE LeBytes(_, _)
LeBytes(n, k) == IF k = 0 THEN <<>> ELSE <<n % 256>> \o LeBytes(n \div 256, k - 1)

to_le_bytes(n) == LeBytes(n, 8)

\* The keys of the model: a variant with its string (given by its UTF-8
\* bytes) or its number.  The string has the bytes of the number 2.
KeyStrings == {<<2, 0, 0, 0, 0, 0, 0, 0>>}
KeyNumbers == {2}
Keys ==
    {[variant |-> "String", str |-> b, num |-> 0] : b \in KeyStrings}
    \cup {[variant |-> "U64", str |-> <<>>, num |-> n] : n \in KeyNumbers}
    \cup {[variant |-> "NodeID", str |-> <<>>, num |-> 1],
          [variant |-> "ShardId", str |-> <<>>, num |-> 258],
          [variant |-> "Unit", str |-> <<>>, num |-> 0]}

\* KeyTrait for Key: the bytes of the value inside the variant.
as_bytes(key) ==
    CASE key.variant = "String" -> key.str
      [] key.variant = "NodeID" -> to_le_bytes(key.num)
      [] key.variant = "Unit" -> <<>>
      [] key.variant = "ShardId" -> to_le_bytes(key.num)
      [] key.variant = "U64" -> to_le_bytes(key.num)

(***************************************************************************)
(* DHT client (ampc/dht/client.rs).                                        *)
(***************************************************************************)
MaxNodes == 3
MaxKeys == 2

ShardIds == {1, 2, 3}
Addrs == {"a", "b"}
Members == ShardIds \X Addrs

\* bloom::fast_stable_hash_64: a fixed function of the bytes.
HashSpace == 65521
RECURSIVE HashFrom(_, _)
HashFrom(h, bytes) ==
    IF bytes = <<>> THEN h
    ELSE HashFrom((h * 31 + Head(bytes) + 7) % HashSpace, Tail(bytes))

\* The hash of each byte string a key of the model has.
KeyBytes == {as_bytes(k) : k \in Keys}
HashTable == [bytes \in KeyBytes |-> HashFrom(17, bytes)]

fast_stable_hash_64(bytes) == HashTable[bytes]

\* `hash as usize` on a target whose usize has 64 bits.
as_usize_narrow(h) == h % 16
as_usize(h) == h

EmptyMap == [s \in {} |-> <<>>]

\* BTreeMap::keys: the keys in ascending order.
RECURSIVE SortedSeq(_)
SortedSeq(S) ==
    IF S = {} THEN <<>>
    ELSE LET m == CHOOSE x \in S : \A y \in S : x <= y
         IN <<m>> \o SortedSeq(S \ {m})

keys(map) == SortedSeq(DOMAIN map)

\* shards.entry(shard).or_default().add_node(addr): Shard::add_node pushes.
entry_add_node(map, shard_id, addr) ==
    IF shard_id \in DOMAIN map
    THEN [map EXCEPT ![shard_id] = Append(@, addr)]
    ELSE [x \in DOMAIN map \cup {shard_id} |-> IF x = shard_id THEN <<addr>> ELSE map[x]]

\* Client::new: the fold of the members into the map.
RECURSIVE new_shards(_)
new_shards(members) ==
    IF members = <<>> THEN EmptyMap
    ELSE LET m == members[Len(members)]
         IN entry_add_node(new_shards(SubSeq(members, 1, Len(members) - 1)), m[1], m[2])

NoOp == [op |-> "none", keys |-> <<>>, shard |-> 0, result |-> "none", sent |-> {}]

DhtIdle ==
    /\ ids = <<>>
    /\ shards = EmptyMap
    /\ dhtOp = NoOp

(***************************************************************************)
(* DHT values and upsert functions (ampc/dht/upsert.rs).                   *)
(***************************************************************************)
\* A u64 is kept as its four 16-bit limbs, least significant first.
Limb == 65536

\* The u64 of a small number n, and the number of a small u64.
U64(n) == <<n % Limb, (n \div Limb) % Limb, 0, 0>>
U64Nat(x) == x[1] + Limb * x[2]

\* u64 addition: the sum modulo 2^64 and whether it went past 2^64 - 1.
overflowing_add(a, b) ==
    LET s1 == a[1] + b[1]
        s2 == a[2] + b[2] + (s1 \div Limb)
        s3 == a[3] + b[3] + (s2 \div Limb)
        s4 == a[4] + b[4] + (s3 \div Limb)
    IN [value |-> <<s1 % Limb, s2 % Limb, s3 % Limb, s4 % Limb>>,
        overflow |-> s4 \div Limb = 1]

\* The `+` of u64 as the build compiles it: with overflow checks (the dev and
\* test profiles) it panics when the sum does not fit, without them (the
\* release profile) it wraps.
Profiles == {"overflow-checks", "wrapping"}

U64AddUpsertKeepsOld(old, new, profile) == [panic |-> FALSE, value |-> old]
\* impl UpsertFn for U64Add: Value::U64(old + new).
U64AddUpsert(old, new, profile) ==
    LET r == overflowing_add(old, new)
    IN IF r.overflow /\ profile = "overflow-checks"
       THEN [panic |-> TRUE, value |-> U64(0)]
       ELSE [panic |-> FALSE, value |-> r.value]

(***************************************************************************)
(* DHT cluster: the table of a shard as its replicas serve it.  The server *)
(* side keeps one table per shard, agreed on by the replicas of the shard. *)
(***************************************************************************)
\* The entries (keys, for the reads) the calls of a run carry in total.
MaxKvEntries == 3

KvKeys ==
    {[variant |-> "U64", str |-> <<>>, num |-> 2],
     [variant |-> "String", str |-> <<2, 0, 0, 0, 0, 0, 0, 0>>, num |-> 0],
     [variant |-> "NodeID", str |-> <<>>, num |-> 1]}
\* The entries written in the model: each key with the value its bytes hash
\* to, 1 or 2.
KvEntries ==
    {[key |-> k, val |-> U64(1 + (fast_stable_hash_64(as_bytes(k)) % 2))] : k \in KvKeys}

\* The clusters of this part of the model: one shard of two replicas, and
\* two shards of which the first has two replicas.  The replica "a" of shard
\* 1 is the one that may stop serving.
Crashable == {<<1, "a">>}
KvClusters ==
    {<< <<1, "a">>, <<1, "b">> >>,
     << <<1, "a">>, <<2, "a">>, <<1, "b">> >>}

EmptyTable == [k \in {} |-> U64(0)]

\* Table::get: the value of the key, if the table has it.
table_get(t, k) == IF k \in DOMAIN t THEN <<t[k]>> ELSE <<>>

\* Table::set.
table_set_dropped(t, k, v) == t
table_set(t, k, v) == [x \in DOMAIN t \cup {k} |-> IF x = k THEN v ELSE t[x]]

\* Table::upsert: a missing key takes the new value (Inserted); otherwise the
\* merged value is stored (Merged) unless it equals the old one (NoChange).
table_upsert(t, k, v) ==
    IF k \notin DOMAIN t
    THEN [table |-> table_set(t, k, v), action |-> "Inserted"]
    ELSE LET merged == U64AddUpsert(t[k], v, "overflow-checks").value
         IN IF merged = t[k] THEN [table |-> t, action |-> "NoChange"]
            ELSE [table |-> table_set(t, k, merged), action |-> "Merged"]

\* batch_upsert on the server: the entries one after another, one
\* (key, action) per entry.
RECURSIVE table_batch_upsert(_, _)
table_batch_upsert(t, entries) ==
    IF entries = <<>> THEN [table |-> t, res |-> <<>>]
    ELSE LET n == Len(entries)
             before == table_batch_upsert(t, SubSeq(entries, 1, n - 1))
             last == table_upsert(before.table, entries[n].key, entries[n].val)
         IN [table |-> last.table,
             res |-> Append(before.res, [key |-> entries[n].key, action |-> last.action,
                                         val |-> U64(0)])]

\* batch_set on the server.
RECURSIVE table_batch_set(_, _)
table_batch_set(t, entries) ==
    IF entries = <<>> THEN t
    ELSE table_batch_set(table_set(t, Head(entries).key, Head(entries).val), Tail(entries))

\* batch_get on the server: the requested keys the table has, each once, with
\* their values.
RECURSIVE table_batch_get(_, _)
table_batch_get(t, ks) ==
    IF ks = <<>> THEN <<>>
    ELSE LET n == Len(ks)
             before == table_batch_get(t, SubSeq(ks, 1, n - 1))
             seen == \E i \in 1..(n - 1) : ks[i] = ks[n]
         IN IF ks[n] \in DOMAIN t /\ ~seen
            THEN Append(before, [key |-> ks[n], action |-> "none", val |-> t[ks[n]]])
            ELSE before

NoKvOp == [op |-> "none", input |-> <<>>, ok |-> FALSE, out |-> <<>>,
           picked |-> {}, applied |-> {}]
KvHistInit == [entries |-> 0, supplied |-> [k \in KvKeys |-> 0], upsertsOnly |-> TRUE]

KvIdle ==
    /\ store = <<>>
    /\ down = {}
    /\ kvOp = NoKvOp
    /\ kvHist = KvHistInit

\* The parts of the program a specification does not exercise stay unused.
AdmIdle == tables = <<>> /\ admOp = <<>>
StrmIdle == strm = <<>>
AddIdle == addOp = <<>>
BootIdle == boot = <<>>
CoordIdle == coord = <<>>
IdxIdle == ixr = <<>>
MrgIdle == mrg = <<>>
WarcIdle == warc = <<>>
SrIdle == sr = <<>>
DhtSideIdle == DhtIdle /\ KvIdle /\ AdmIdle /\ StrmIdle /\ AddIdle /\ BootIdle
MapIdle == imap = <<>>
DlIdle == dl = <<>>
CmtIdle == cmt = <<>>
AuxIdle == MapIdle /\ DlIdle /\ CmtIdle
PipelineIdle == CoordIdle /\ IdxIdle /\ MrgIdle /\ WarcIdle /\ SrIdle /\ AuxIdle

(***************************************************************************)
(* Client side of the service RPC.                                         *)
(***************************************************************************)
Fresh == CHOOSE c \in Conns : status[c] = "none" /\ \A d \in Conns : status[d] = "none" => c <= d
HasFresh == \E c \in Conns : status[c] = "none"

\* Nothing of an earlier send is still under way anywhere.
Quiet ==
    \A d \in Conns : cpc[d] = "idle" /\ inbox[d] = <<>> /\ srv[d].pc # "handle"

\* The server task of c has nothing left to do once the client is gone: it
\* has ended, or it waits in request() with nothing to read.
TaskDone(c) == srv[c].pc \in {"ended", "none"} \/ (srv[c].pc = "wait" /\ inbox[c] = <<>>)

\* The status of a connection the client drops.
Dropped(c) == IF TaskDone(c) THEN "none" ELSE "gone"

\* The client-side fields of the connections in `dead` after they are dropped,
\* and of the connections in `born`, which the pool's manager opens.
DropFields(dead, born) ==
    /\ await_res' = [c \in Conns |-> IF c \in dead THEN FALSE ELSE await_res[c]]
    /\ failed' = [c \in Conns |-> IF c \in dead THEN FALSE ELSE failed[c]]
    /\ closed' = [c \in Conns |-> IF c \in dead THEN FALSE ELSE closed[c]]
    /\ outbox' = [c \in Conns |-> IF c \in dead THEN <<>> ELSE outbox[c]]
    /\ srv' = [c \in Conns |-> IF c \in dead /\ TaskDone(c) THEN SrvNone
                                ELSE IF c \in born THEN SrvWait ELSE srv[c]]
    /\ pooled' = [c \in Conns |-> IF c \in dead THEN FALSE
                                   ELSE IF c \in born THEN TRUE ELSE pooled[c]]

\* Connection::create (also the manager's create): a new stream to the server,
\* await_res false; Server::accept spawns the task that serves it.
Create ==
    /\ HasFresh
    /\ status' = [status EXCEPT ![Fresh] = "out"]
    /\ srv' = [srv EXCEPT ![Fresh] = SrvWait]
    /\ UNCHANGED <<pooled, await_res, closed, cpc, creq, failed, pool, inbox, outbox,
                   counter, hist>>
    /\ ret' = NoRet
    /\ UNCHANGED nonRpcVars

\* ConnectionPool::get: the pool takes idle connections from the front of its
\* queue, drops each one the manager's recycle rejects, hands out the first
\* one it accepts, and has the manager create a connection when none is left.
Checkout ==
    LET k == FirstRecyclable(pool, 1)
        dead == IF k = 0 THEN {pool[i] : i \in 1..Len(pool)}
                         ELSE {pool[i] : i \in 1..(k - 1)}
    IN /\ IF k > 0
          THEN /\ status' = [c \in Conns |-> IF c \in dead THEN Dropped(c)
                                            ELSE IF c = pool[k] THEN "out"
                                            ELSE status[c]]
               /\ pool' = SubSeq(pool, k + 1, Len(pool))
          ELSE /\ HasFresh
               /\ status' = [c \in Conns |-> IF c \in dead THEN Dropped(c)
                                            ELSE IF c = Fresh THEN "out"
                                            ELSE status[c]]
               /\ pool' = <<>>
       /\ DropFields(dead, IF k = 0 /\ HasFresh THEN {Fresh} ELSE {})
       /\ ret' = [NoRet EXCEPT
                    !.op = "get",
                    !.conn = IF k > 0 THEN pool[k] ELSE Fresh,
                    !.fresh = (k = 0),
                    !.rejected = {[conn |-> c, awaiting |-> await_res[c],
                                   closed |-> closed[c], failed |-> failed[c]] : c \in dead}]
       /\ UNCHANGED <<cpc, creq, inbox, counter, hist>>
       /\ UNCHANGED nonRpcVars

\* The caller lets go of a connection: a pooled one goes back to the end of the
\* pool's queue as it is, a direct one is closed.
Release(c) ==
    /\ status[c] = "out"
    /\ cpc[c] = "idle"
    /\ IF pooled[c]
       THEN /\ status' = [status EXCEPT ![c] = "pool"]
            /\ pool' = Append(pool, c)
            /\ UNCHANGED <<await_res, failed, closed, outbox, pooled, srv>>
       ELSE /\ status' = [status EXCEPT ![c] = Dropped(c)]
            /\ DropFields({c}, {})
            /\ UNCHANGED pool
    /\ UNCHANGED <<cpc, creq, inbox, counter, hist>>
    /\ ret' = NoRet
    /\ UNCHANGED nonRpcVars

\* What the error path of send leaves in await_res: the `?` returns before
\* the assignment that clears the flag.
AwaitAfterErrorCleared(c) == FALSE
AwaitAfterError(c) == await_res[c]

\* What the success path of send leaves in await_res.
AwaitAfterOkKept(c) == await_res[c]
AwaitAfterOk(c) == FALSE

\* send, send_with_timeout, send_without_timeout and batch_send_with_timeout up
\* to the point where the frame is written: await_res is set, the requests are
\* wrapped and the One or Many frame goes out.  A caller whose send returned an
\* error does not send on that connection again (every caller in the source
\* propagates the error and lets go of the connection).
SendBegin(c, method, reqs) ==
    /\ status[c] = "out"
    /\ cpc[c] = "idle"
    /\ ~failed[c]
    /\ hist.sends + Cost(reqs) <= MaxRequests
    /\ IF method = "batch_send_with_timeout" THEN reqs \in Batches ELSE Len(reqs) = 1
    /\ LET n == Len(reqs)
           many == method = "batch_send_with_timeout"
           frame == [many |-> many, bodies |-> [i \in 1..n |-> wrap_request(reqs[i], i)]]
           written == ~closed[c]
       IN /\ await_res' = [await_res EXCEPT ![c] = TRUE]
          /\ inbox' = [inbox EXCEPT ![c] = IF written THEN Append(@, frame) ELSE @]
          /\ hist' = Followed([hist EXCEPT
                        !.sends = @ + Cost(reqs),
                        !.sinceReset = IF written THEN RunningSum(@, reqs) ELSE @,
                        !.serial = @ /\ Quiet /\ written,
                        !.additive = @ /\ ~(written /\ \E i \in 1..n : reqs[i].kind = "Reset")])
          /\ creq' = [creq EXCEPT ![c] = [tmo |-> method # "send_without_timeout",
                                          many |-> many, reqs |-> reqs,
                                          base |-> IF hist'.serial THEN hist.sinceReset ELSE 0]]
          /\ cpc' = [cpc EXCEPT ![c] = "sent"]
    /\ ret' = NoRet
    /\ UNCHANGED <<status, pooled, closed, failed, pool, outbox, srv, counter>>
    /\ UNCHANGED nonRpcVars

\* The response frame has the shape and the variants the request asks for:
\* one() and many() find their frame and every unwrap_response is Some.
ResponseFits(req, resp) ==
    /\ resp.many = req.many
    /\ req.many \/ Len(resp.bodies) = 1
    /\ \A i \in DOMAIN resp.bodies :
          unwrap_response(req.reqs[IF i \in DOMAIN req.reqs THEN i ELSE 1].kind,
                          resp.bodies[i]) # <<>>

\* The rest of send: the response frame arrives, is unwrapped and returned,
\* and await_res is cleared.  A frame that does not fit panics in expect or
\* unwrap, which leaves await_res as it is.
SendOk(c) ==
    /\ cpc[c] = "sent"
    /\ outbox[c] # <<>>
    /\ LET resp == Head(outbox[c])
           fits == ResponseFits(creq[c], resp)
       IN /\ await_res' = [await_res EXCEPT ![c] = IF fits THEN AwaitAfterOk(c)
                                                           ELSE AwaitAfterError(c)]
          /\ failed' = [failed EXCEPT ![c] = ~fits]
          /\ ret' = IF fits THEN [NoRet EXCEPT !.op = "send", !.conn = c,
                                                !.many = creq[c].many,
                                                !.reqs = creq[c].reqs,
                                                !.resp = resp.bodies,
                                                !.base = creq[c].base]
                            ELSE NoRet
          /\ hist' = Followed([hist EXCEPT !.serial = @ /\ fits])
    /\ outbox' = [outbox EXCEPT ![c] = Tail(@)]
    /\ cpc' = [cpc EXCEPT ![c] = "idle"]
    /\ creq' = [creq EXCEPT ![c] = NoReq]
    /\ UNCHANGED <<status, pooled, closed, pool, inbox, srv, counter>>
    /\ UNCHANGED nonRpcVars

\* send returns an error: the timeout ran out (the methods with a timeout),
\* the peer closed the stream, or the response frame could not be decoded.
\* The `?` leaves the method before await_res is cleared.
SendFail(c, kind) ==
    /\ cpc[c] = "sent"
    /\ \/ kind = "Timeout" /\ creq[c].tmo
       \/ kind = "Closed" /\ closed[c]
       \/ kind = "Decode" /\ outbox[c] # <<>>
    /\ outbox' = [outbox EXCEPT ![c] = IF kind = "Decode" THEN Tail(@) ELSE @]
    /\ await_res' = [await_res EXCEPT ![c] = AwaitAfterError(c)]
    /\ failed' = [failed EXCEPT ![c] = TRUE]
    /\ cpc' = [cpc EXCEPT ![c] = "idle"]
    /\ creq' = [creq EXCEPT ![c] = NoReq]
    /\ hist' = Followed([hist EXCEPT !.serial = FALSE])
    /\ UNCHANGED <<status, pooled, closed, pool, inbox, srv, counter>>
    /\ ret' = NoRet
    /\ UNCHANGED nonRpcVars

\* The peer's end of the stream goes away: the server task's next request()
\* fails and the task ends; what the client had written is lost.
PeerClose(c) ==
    /\ status[c] \in {"out", "pool"}
    /\ ~closed[c]
    /\ closed' = [closed EXCEPT ![c] = TRUE]
    /\ srv' = [srv EXCEPT ![c] = SrvEnded]
    /\ inbox' = [inbox EXCEPT ![c] = <<>>]
    /\ hist' = Followed([hist EXCEPT !.additive = @ /\ inbox[c] = <<>> /\ srv[c].bodies = <<>>])
    /\ UNCHANGED <<status, pooled, await_res, cpc, creq, failed, pool, outbox, counter>>
    /\ ret' = NoRet
    /\ UNCHANGED nonRpcVars

(***************************************************************************)
(* Server side: the task Server::accept spawns for one connection.         *)
(***************************************************************************)
\* The order in which the task takes the bodies of a frame, and in which it
\* collects the responses.
NextBodyLast(bodies) == bodies[Len(bodies)]
NextBody(bodies) == Head(bodies)
PushResFront(res, r) == <<r>> \o res
PushRes(res, r) == Append(res, r)

\* The bodies still to handle once b, the first or the last of them, is taken.
Without(bodies, b) ==
    IF b = Head(bodies) THEN Tail(bodies) ELSE SubSeq(bodies, 1, Len(bodies) - 1)

\* conn.request() returns the next frame; take_body.
SrvRead(c) ==
    /\ srv[c].pc = "wait"
    /\ inbox[c] # <<>>
    /\ srv' = [srv EXCEPT ![c] = [pc |-> "handle", many |-> Head(inbox[c]).many,
                                  bodies |-> Head(inbox[c]).bodies, res |-> <<>>]]
    /\ inbox' = [inbox EXCEPT ![c] = Tail(@)]
    /\ UNCHANGED <<status, pooled, await_res, closed, cpc, creq, failed, pool, outbox,
                   counter, hist>>
    /\ ret' = NoRet
    /\ UNCHANGED nonRpcVars

\* S::handle(body, &service).await for the next body of the frame.
SrvHandle(c) ==
    /\ srv[c].pc = "handle"
    /\ srv[c].bodies # <<>>
    /\ LET b == NextBody(srv[c].bodies)
           r == ServiceHandle(counter, b)
       IN /\ counter' = r.counter
          /\ srv' = [srv EXCEPT ![c].bodies = Without(@, b),
                                ![c].res = PushRes(@, r.response)]
    /\ UNCHANGED <<status, pooled, await_res, closed, cpc, creq, failed, pool, inbox,
                   outbox, hist>>
    /\ ret' = NoRet
    /\ UNCHANGED nonRpcVars

\* req.respond(One(res)) or req.respond(Many(res)); a failed write is logged
\* and the loop goes on to the next request().
SrvRespond(c) ==
    /\ srv[c].pc = "handle"
    /\ srv[c].bodies = <<>>
    /\ outbox' = [outbox EXCEPT ![c] =
                     IF status[c] = "gone" THEN @
                     ELSE Append(@, [many |-> srv[c].many, bodies |-> srv[c].res])]
    /\ srv' = [srv EXCEPT ![c] = SrvWait]
    /\ UNCHANGED <<status, pooled, await_res, closed, cpc, creq, failed, pool, inbox,
                   counter, hist>>
    /\ ret' = NoRet
    /\ UNCHANGED nonRpcVars

\* conn.request() fails because the client has dropped the connection and
\* nothing is left to read: the while loop and the task end.
SrvEof(c) ==
    /\ status[c] = "gone"
    /\ srv[c].pc = "wait"
    /\ inbox[c] = <<>>
    /\ srv' = [srv EXCEPT ![c] = SrvNone]
    /\ status' = [status EXCEPT ![c] = "none"]
    /\ UNCHANGED <<pooled, await_res, closed, cpc, creq, failed, pool, inbox, outbox,
                   counter, hist>>
    /\ ret' = NoRet
    /\ UNCHANGED nonRpcVars

RpcNext ==
    \/ Create
    \/ Checkout
    \/ \E c \in Conns : Release(c)
    \/ \E c \in Conns, m \in Methods, reqs \in SeqsUpTo(Requests, MaxRequests) :
          SendBegin(c, m, reqs)
    \/ \E c \in Conns : SendOk(c)
    \/ \E c \in Conns, kind \in {"Timeout", "Closed", "Decode"} : SendFail(c, kind)
    \/ \E c \in Conns : PeerClose(c)
    \/ \E c \in Conns : SrvRead(c)
    \/ \E c \in Conns : SrvHandle(c)
    \/ \E c \in Conns : SrvRespond(c)
    \/ \E c \in Conns : SrvEof(c)

InitRpc == RpcInit /\ DhtIdle /\ KvIdle /\ AdmIdle /\ StrmIdle /\ AddIdle /\ BootIdle /\ PipelineIdle

SpecRpc == InitRpc /\ [][RpcNext]_vars

(***************************************************************************)
(* Properties of the service RPC and its pool.                             *)
(***************************************************************************)
Live(c) == status[c] \in {"out", "pool"}

\* Request frames of connection c that are written and not yet answered to
\* the client: still unread, being handled, or answered and not yet read.
InFlight(c) ==
    Len(inbox[c]) + (IF srv[c].pc = "handle" THEN 1 ELSE 0) + Len(outbox[c])

RetVals == [i \in DOMAIN ret.resp |-> ret.resp[i].val]

\* The Change amounts written and not yet applied by the server.
PendingOf(c) ==
    SumSeq([i \in DOMAIN inbox[c] |-> ChangeSum(inbox[c][i].bodies)])
    + ChangeSum(srv[c].bodies)

RECURSIVE PendingSum(_)
PendingSum(S) ==
    IF S = {} THEN 0
    ELSE LET c == CHOOSE x \in S : TRUE IN PendingOf(c) + PendingSum(S \ {c})

\* C1: a checkout never hands out a connection that is awaiting a response or
\* closed; every connection it passes over was one of these and is dropped,
\* and when it finds no idle connection to recycle the one it hands out is
\* freshly opened.
C1_CheckoutRejectsBusyOrClosed ==
    ret.op = "get" =>
        /\ ~awaiting_response(ret.conn) /\ ~is_closed(ret.conn)
        /\ status[ret.conn] = "out"
        /\ \A r \in ret.rejected :
              /\ r.awaiting \/ r.closed
              /\ r.conn # ret.conn
              /\ status[r.conn] \in {"none", "gone"}
        /\ ret.fresh => (srv[ret.conn] = SrvWait /\ inbox[ret.conn] = <<>>)

\* A checkout has just passed over a connection that was awaiting a response
\* and handed out a freshly opened one.
C1_Witness ==
    /\ ret.op = "get"
    /\ ret.fresh
    /\ \E r \in ret.rejected : r.awaiting

C4_SerialPerConnection ==
    \A c \in Conns : srv[c].pc = "handle" =>
        LET done == Len(srv[c].res)
            rest == srv[c].bodies
        IN /\ \A i \in 1..done : srv[c].res[i].idx = i
           /\ \A i \in 1..Len(rest) : rest[i].idx = done + i
           /\ inbox[c] = <<>>
           /\ outbox[c] = <<>> \/ failed[c] \/ ~Live(c)
           /\ (Live(c) /\ cpc[c] = "sent") =>
                 /\ done + Len(rest) = Len(creq[c].reqs)
                 /\ \A i \in 1..done : srv[c].res[i].kind = creq[c].reqs[i].kind

\* The handlers of two connections run interleaved: one task has read its
\* frame and not yet handled it while the other has handled a body and not
\* yet answered.
C4_Witness ==
    \E c, d \in Conns :
        /\ c # d
        /\ srv[c].pc = "handle" /\ srv[c].res = <<>> /\ srv[c].bodies # <<>>
        /\ srv[d].pc = "handle" /\ Len(srv[d].res) >= 1

\* C5: batch_send of n requests returns n responses and the i-th response is
\* the one the server produced for the i-th request of the Many frame.
C5_BatchOrder ==
    (ret.op = "send" /\ ret.many) =>
        /\ Len(ret.resp) = Len(ret.reqs)
        /\ \A i \in DOMAIN ret.resp :
              ret.resp[i].idx = i /\ ret.resp[i].kind = ret.reqs[i].kind

\* A batch of at least two requests has just returned.
C5_Witness == ret.op = "send" /\ ret.many /\ Len(ret.reqs) >= 2

C7_Step ==
    \A c \in Conns :
        (hist.additive /\ srv[c].pc = "handle" /\ srv'[c].pc = "handle"
         /\ Len(srv'[c].res) = Len(srv[c].res) + 1) =>
            LET r == srv'[c].res[Len(srv'[c].res)]
            IN r.val = counter' /\ counter' >= counter

\* C7: with Changes only, sent concurrently over the connections, no update is
\* lost: the counter plus the amounts still to be applied is the sum of all
\* amounts written (so the final counter is that sum), and the responses in
\* the order the server applies the changes are non-decreasing running sums.
C7_NoLostUpdate ==
    /\ [](hist.additive => counter + PendingSum(Conns) = hist.sinceReset)
    /\ [][C7_Step]_vars

\* Two pooled connections have each had a Change applied, neither answered
\* yet, and the counter is the sum of both.
C7_Witness ==
    /\ hist.additive
    /\ \A c \in Conns : pooled[c] /\ srv[c].pc = "handle" /\ Len(srv[c].res) = 1
    /\ counter = 2

(***************************************************************************)
(* DHT client: construction, add_node and routing.                         *)
(***************************************************************************)
NumNodes == SumSeq([i \in DOMAIN ids |-> Len(shards[ids[i]])])

DhtInit ==
    \E members \in SeqsUpTo(Members, MaxNodes) :
        /\ shards = new_shards(members)
        /\ ids = keys(new_shards(members))
        /\ dhtOp = NoOp

\* The ids an add_node leaves.
add_node_ids_push(map, old, shard_id) == Append(old, shard_id)
add_node_ids(map, old, shard_id) == keys(map)

\* Client::add_node.
AddNode(shard_id, addr) ==
    /\ NumNodes < MaxNodes
    /\ shards' = entry_add_node(shards, shard_id, addr)
    /\ ids' = add_node_ids(shards', ids, shard_id)
    /\ dhtOp' = [NoOp EXCEPT !.op = "add_node", !.shard = shard_id]
    /\ UNCHANGED nonDhtVars

\* Client::shard_id_for_key.
shard_id_for_key(bytes) ==
    IF ids = <<>> THEN [ok |-> FALSE, id |-> 0]
    ELSE [ok |-> TRUE, id |-> ids[(as_usize(fast_stable_hash_64(bytes)) % Len(ids)) + 1]]

\* Client::shard_for_key: the shard of the id; the map has it.
shard_for_key(bytes) == shard_id_for_key(bytes)

Range(f) == {f[x] : x \in DOMAIN f}

\* The loop of batch_get, batch_set and batch_upsert that groups the entries
\* by shard; the `?` leaves at the first key that cannot be routed.
group_by_shard_skipping(ks) ==
    LET routed == {i \in DOMAIN ks : shard_id_for_key(as_bytes(ks[i])).ok}
        targets == {shard_id_for_key(as_bytes(ks[i])).id : i \in routed}
    IN [ok |-> TRUE,
        groups |-> [s \in targets |->
                      {i \in routed : shard_id_for_key(as_bytes(ks[i])).id = s}]]
group_by_shard(ks) ==
    LET routes == [i \in DOMAIN ks |-> shard_id_for_key(as_bytes(ks[i]))]
        ok == \A i \in DOMAIN ks : routes[i].ok
        targets == {routes[i].id : i \in DOMAIN ks}
    IN [ok |-> ok,
        groups |-> IF ok THEN [s \in targets |-> {i \in DOMAIN ks : routes[i].id = s}]
                         ELSE EmptyMap]

\* Client::get, set and upsert: route the key, then Shard::node picks one of
\* the shard's nodes and the request goes to it.
Single(op, key) ==
    /\ op \in {"get", "set", "upsert"}
    /\ LET r == shard_for_key(as_bytes(key))
       IN IF r.ok
          THEN \E node \in Range(shards[r.id]) :
                  dhtOp' = [op |-> op, keys |-> <<key>>, shard |-> 0, result |-> "Sent",
                            sent |-> {[shard |-> r.id, node |-> node, entries |-> {1}]}]
          ELSE dhtOp' = [op |-> op, keys |-> <<key>>, shard |-> 0, result |-> "NoShards",
                         sent |-> {}]
    /\ UNCHANGED <<ids, shards>>
    /\ UNCHANGED nonDhtVars

\* Client::batch_get, batch_set and batch_upsert: group the entries by
\* shard, then one request per shard to one of its nodes.
Batch(op, ks) ==
    /\ op \in {"batch_get", "batch_set", "batch_upsert"}
    /\ LET g == group_by_shard(ks)
       IN IF g.ok
          THEN \E pick \in [DOMAIN g.groups -> Addrs] :
                  /\ \A s \in DOMAIN g.groups : pick[s] \in Range(shards[s])
                  /\ dhtOp' = [op |-> op, keys |-> ks, shard |-> 0, result |-> "Sent",
                               sent |-> {[shard |-> s, node |-> pick[s],
                                          entries |-> g.groups[s]] : s \in DOMAIN g.groups}]
          ELSE dhtOp' = [op |-> op, keys |-> ks, shard |-> 0, result |-> "NoShards",
                         sent |-> {}]
    /\ UNCHANGED <<ids, shards>>
    /\ UNCHANGED nonDhtVars

\* The caller holds the client (`&mut self` for add_node) and makes one call
\* at a time: Idle between calls, and Return hands it the result of the call.
Idle == dhtOp = NoOp

Return ==
    /\ ~Idle
    /\ dhtOp' = NoOp
    /\ UNCHANGED <<ids, shards>>
    /\ UNCHANGED nonDhtVars

DhtNext ==
    \/ Idle /\ \E s \in ShardIds, a \in Addrs : AddNode(s, a)
    \/ Idle /\ \E op \in {"get", "set", "upsert"}, k \in Keys : Single(op, k)
    \/ Idle /\ \E op \in {"batch_get", "batch_set", "batch_upsert"},
                   ks \in SeqsUpTo(Keys, MaxKeys) : Batch(op, ks)
    \/ Return

InitDht == DhtInit /\ RpcInit /\ KvIdle /\ AdmIdle /\ StrmIdle /\ AddIdle /\ BootIdle /\ PipelineIdle

SpecDht == InitDht /\ [][DhtNext]_vars

(***************************************************************************)
(* Properties of the DHT client.                                           *)
(***************************************************************************)
RoutedOps == {"get", "set", "upsert", "batch_get", "batch_set", "batch_upsert"}

\* The element of the set S of ShardIds at the position hash64(bytes) mod |S|
\* of the ascending order: the one with that many smaller elements.
RouteOver(S, bytes) ==
    CHOOSE s \in S :
        Cardinality({t \in S : t < s}) = fast_stable_hash_64(bytes) % Cardinality(S)

RouteIsByBytesAndShardIds ==
    /\ \A k \in Keys :
          DOMAIN shards # {} =>
              shard_id_for_key(as_bytes(k))
                  = [ok |-> TRUE, id |-> RouteOver(DOMAIN shards, as_bytes(k))]
    /\ \A r \in dhtOp.sent : \A i \in r.entries :
          r.shard = RouteOver(DOMAIN shards, as_bytes(dhtOp.keys[i]))

AddNodeToKnownShardKeepsRoutes ==
    (dhtOp'.op = "add_node" /\ dhtOp'.shard \in DOMAIN shards) =>
        \A k \in Keys : shard_id_for_key(as_bytes(k))' = shard_id_for_key(as_bytes(k))

\* C8: a key is routed to the ShardId at position hash64(bytes of the key)
\* mod (number of ShardIds) of the ascending ShardId list: the route is a
\* function of the key's bytes and the set of ShardIds only (so keys with
\* equal bytes, of whatever variants, share their route), every request of
\* get, set, upsert and the batch forms goes to that shard, and add_node for
\* a ShardId the client already has changes no key's route.
C8_RouteByBytesAndShardIds ==
    /\ []RouteIsByBytesAndShardIds
    /\ [][AddNodeToKnownShardKeepsRoutes]_vars

\* A client of two shards, one of them with two nodes, has sent a batch of a
\* String and a U64 of equal bytes: one request, to the second shard.
C8_Witness ==
    /\ dhtOp.op = "batch_get"
    /\ Len(ids) = 2
    /\ \E s \in DOMAIN shards : Len(shards[s]) = 2
    /\ \E r \in dhtOp.sent : \E i, j \in r.entries :
          /\ r.shard = ids[2]
          /\ dhtOp.keys[i].variant = "String"
          /\ dhtOp.keys[j].variant = "U64"
          /\ as_bytes(dhtOp.keys[i]) = as_bytes(dhtOp.keys[j])

\* C9: after Client::new and after every add_node, the ordered ShardId list
\* is strictly ascending (so it has no duplicates) and its elements are
\* exactly the keys of the ShardId-to-Shard map; this holds in every state a
\* caller can see.
C9_IdsAreSortedKeys ==
    /\ \A i, j \in DOMAIN ids : i < j => ids[i] < ids[j]
    /\ {ids[i] : i \in DOMAIN ids} = DOMAIN shards

\* add_node has just added a new shard whose id is below the two the client
\* had.
C9_Witness ==
    /\ dhtOp.op = "add_node"
    /\ Len(ids) = 3
    /\ dhtOp.shard = ids[1]
    /\ Len(shards[ids[1]]) = 1

\* C10: on a client with no shards, get, set and upsert, and the batch forms
\* called with at least one entry, return the "No shards" error and send no
\* request to any node.
C10_NoShards ==
    (dhtOp.op \in RoutedOps /\ DOMAIN shards = {} /\ dhtOp.keys # <<>>) =>
        (dhtOp.result = "NoShards" /\ dhtOp.sent = {})

\* A batch_upsert of two entries has returned on a client with no shards.
C10_Witness ==
    /\ DOMAIN shards = {}
    /\ dhtOp.op = "batch_upsert"
    /\ Len(dhtOp.keys) = 2
    /\ dhtOp.result = "NoShards"

(***************************************************************************)
(* DHT client calls against a cluster (ampc/dht/client.rs: Client, Shard,  *)
(* Node).  A request to a replica that cannot serve fails: the call of     *)
(* Node returns Err.                                                       *)
(***************************************************************************)
Replicas(s) == {<<s, a>> : a \in Range(shards[s])}
AllReplicas == UNION {Replicas(s) : s \in DOMAIN shards}

KeysOf(entries) == [i \in DOMAIN entries |-> entries[i].key]

\* The entries a shard gets: those at the positions I of the input, in the
\* order of the input (shard_values.entry(shard).or_default().push(..)).
RECURSIVE entries_at_last_per_key(_, _)
entries_at_last_per_key(entries, I) ==
    LET J == {i \in I : ~\E j \in I : j > i /\ entries[j].key = entries[i].key}
    IN IF J = {} THEN <<>>
       ELSE LET m == CHOOSE i \in J : \A j \in J : j <= i
            IN Append(entries_at_last_per_key(entries, J \ {m}), entries[m])
RECURSIVE entries_at(_, _)
entries_at(entries, I) ==
    IF I = {} THEN <<>>
    ELSE LET m == CHOOSE i \in I : \A j \in I : j <= i
         IN Append(entries_at(entries, I \ {m}), entries[m])

\* try_join_all(futures).await?.into_iter().flatten().collect(): the replies of
\* the shards one after another, in the order of the futures (ascending
\* ShardId, the order of the BTreeMap).
flatten_first(replies, order) == IF order = <<>> THEN <<>> ELSE replies[Head(order)]
RECURSIVE flatten(_, _)
flatten(replies, order) ==
    IF order = <<>> THEN <<>>
    ELSE replies[Head(order)] \o flatten(replies, Tail(order))

\* try_join_all(futures).await?: the replies of all requests if every one
\* succeeded, otherwise the error and nothing else.
try_join_all_best_effort(results) ==
    [ok |-> TRUE, replies |-> [s \in DOMAIN results |-> results[s].res]]
try_join_all(results) ==
    IF \A s \in DOMAIN results : results[s].ok
    THEN [ok |-> TRUE, replies |-> [s \in DOMAIN results |-> results[s].res]]
    ELSE [ok |-> FALSE, replies |-> [s \in DOMAIN results |-> <<>>]]

\* What the node serving table t answers to a request, and the table it leaves.
serve(op, t, entries) ==
    CASE op = "batch_upsert" -> table_batch_upsert(t, entries)
      [] op = "upsert" -> table_batch_upsert(t, entries)
      [] op \in {"set", "batch_set"} -> [table |-> table_batch_set(t, entries), res |-> <<>>]
      [] op \in {"get", "batch_get"} -> [table |-> t, res |-> table_batch_get(t, KeysOf(entries))]

Writes(op) == op \in {"set", "batch_set"}
Upserts(op) == op \in {"upsert", "batch_upsert"}
Reads(op) == op \in {"get", "batch_get"}

\* The entries a call may be given: reads carry keys only.
InputsOf(op) == IF Reads(op) THEN {[key |-> k, val |-> U64(0)] : k \in KvKeys} ELSE KvEntries

RECURSIVE SuppliedBy(_, _)
SuppliedBy(entries, k) ==
    IF entries = <<>> THEN 0
    ELSE (IF Head(entries).key = k THEN U64Nat(Head(entries).val) ELSE 0)
         + SuppliedBy(Tail(entries), k)

\* The history after a call: the values the successful upserts supplied per
\* key; upsertsOnly ends with a set and with an upsert that failed.
KvFollow(op, entries, ok) ==
    [entries |-> kvHist.entries + Len(entries),
     supplied |-> [k \in KvKeys |->
                     kvHist.supplied[k]
                     + (IF Upserts(op) /\ ok THEN SuppliedBy(entries, k) ELSE 0)],
     upsertsOnly |-> kvHist.upsertsOnly /\ ~Writes(op) /\ (Upserts(op) => ok)]

KvInit ==
    \E members \in KvClusters :
        /\ shards = new_shards(members)
        /\ ids = keys(new_shards(members))
        /\ dhtOp = NoOp
        /\ store = [s \in DOMAIN new_shards(members) |-> EmptyTable]
        /\ down = {}
        /\ kvOp = NoKvOp
        /\ kvHist = KvHistInit

KvIdleNow == kvOp = NoKvOp

\* Client::get, set and upsert: shard_for_key(..)?, then Shard::get/set/upsert,
\* which is self.node().get/set/upsert(..): one replica picked at random, one
\* request to it, its result returned.
KvSingle(op, entry) ==
    /\ op \in {"get", "set", "upsert"}
    /\ entry \in InputsOf(op)
    /\ kvHist.entries < MaxKvEntries
    /\ LET r == shard_for_key(as_bytes(entry.key))
       IN IF ~r.ok
          THEN /\ kvOp' = [NoKvOp EXCEPT !.op = op, !.input = <<entry>>]
               /\ store' = store
               /\ kvHist' = KvFollow(op, <<entry>>, FALSE)
          ELSE \E node \in Range(shards[r.id]) :
                  LET fails == <<r.id, node>> \in down
                      reply == serve(op, store[r.id], <<entry>>)
                  IN /\ store' = IF fails THEN store ELSE [store EXCEPT ![r.id] = reply.table]
                     /\ kvOp' = [op |-> op, input |-> <<entry>>, ok |-> ~fails,
                                 out |-> IF fails THEN <<>> ELSE reply.res,
                                 picked |-> {<<r.id, node>>},
                                 applied |-> IF fails THEN {} ELSE {r.id}]
                     /\ kvHist' = KvFollow(op, <<entry>>, ~fails)
    /\ UNCHANGED <<ids, shards, dhtOp, down>>
    /\ UNCHANGED nonKvVars

\* Client::batch_get, batch_set and batch_upsert: the entries grouped by
\* shard, one request per shard to a replica picked at random, all awaited by
\* try_join_all: the flattened replies if every request succeeds, otherwise
\* the error, while the requests to the other shards may have been served.
KvBatch(op, entries) ==
    /\ op \in {"batch_get", "batch_set", "batch_upsert"}
    /\ \A i \in DOMAIN entries : entries[i] \in InputsOf(op)
    /\ kvHist.entries + Len(entries) <= MaxKvEntries
    /\ LET g == group_by_shard(KeysOf(entries))
           targets == DOMAIN g.groups
       IN \E pick \in [targets -> Addrs] :
            /\ \A s \in targets : pick[s] \in Range(shards[s])
            /\ LET failing == {s \in targets : <<s, pick[s]>> \in down}
                   reply == [s \in targets |->
                               serve(op, store[s], entries_at(entries, g.groups[s]))]
                   joined == try_join_all(
                                [s \in targets |->
                                   [ok |-> s \notin failing,
                                    res |-> IF s \in failing THEN <<>> ELSE reply[s].res]])
               IN \E served \in SUBSET (targets \ failing) :
                    /\ failing = {} => served = targets
                    /\ store' = [s \in DOMAIN store |->
                                   IF s \in served THEN reply[s].table ELSE store[s]]
                    /\ kvOp' = [op |-> op, input |-> entries, ok |-> g.ok /\ joined.ok,
                                out |-> IF g.ok
                                        THEN flatten(joined.replies, SortedSeq(targets))
                                        ELSE <<>>,
                                picked |-> {<<s, pick[s]>> : s \in targets},
                                applied |-> served]
                    /\ kvHist' = KvFollow(op, entries, g.ok /\ joined.ok)
    /\ UNCHANGED <<ids, shards, dhtOp, down>>
    /\ UNCHANGED nonKvVars

\* The caller takes the result of the call.
KvReturn ==
    /\ ~KvIdleNow
    /\ kvOp' = NoKvOp
    /\ UNCHANGED <<ids, shards, dhtOp, store, down, kvHist>>
    /\ UNCHANGED nonKvVars

\* A replica stops being able to serve (it is gone, or cannot reach a quorum),
\* or serves again.
Crash(n) ==
    /\ n \in AllReplicas \ down
    /\ down' = down \cup {n}
    /\ UNCHANGED <<ids, shards, dhtOp, store, kvOp, kvHist>>
    /\ UNCHANGED nonKvVars

Recover(n) ==
    /\ n \in down
    /\ down' = down \ {n}
    /\ UNCHANGED <<ids, shards, dhtOp, store, kvOp, kvHist>>
    /\ UNCHANGED nonKvVars

KvNext ==
    \/ KvIdleNow /\ \E op \in {"get", "set", "upsert"} : \E e \in InputsOf(op) :
          KvSingle(op, e)
    \/ KvIdleNow /\ \E op \in {"batch_get", "batch_set", "batch_upsert"} :
                       \E es \in SeqsUpTo(InputsOf(op), MaxKvEntries) : KvBatch(op, es)
    \/ KvReturn
    \/ KvIdleNow /\ \E n \in Crashable : Crash(n)
    \/ KvIdleNow /\ \E n \in Crashable : Recover(n)

InitKv == KvInit /\ RpcInit /\ AdmIdle /\ StrmIdle /\ AddIdle /\ BootIdle /\ PipelineIdle

SpecKv == InitKv /\ [][KvNext]_vars

(***************************************************************************)
(* Properties of the DHT client's calls against a cluster.                 *)
(***************************************************************************)
\* How often key k occurs in a sequence of entries.
Occurrences(entries, k) == Cardinality({i \in DOMAIN entries : entries[i].key = k})

\* C11: a successful batch_upsert returns as many (key, action) pairs as its
\* input has entries, and every key as often as the input has it, also with
\* repeated keys and with keys of several shards.
C11_BatchUpsertKeys ==
    (kvOp.op = "batch_upsert" /\ kvOp.ok) =>
        /\ Len(kvOp.out) = Len(kvOp.input)
        /\ \A k \in KvKeys : Occurrences(kvOp.out, k) = Occurrences(kvOp.input, k)

\* A batch_upsert of three entries, two of them with the same key, has
\* succeeded on two shards.
C11_Witness ==
    /\ kvOp.op = "batch_upsert"
    /\ kvOp.ok
    /\ Len(kvOp.input) = 3
    /\ \E k \in KvKeys : Occurrences(kvOp.input, k) = 2
    /\ Cardinality(kvOp.applied) = 2

\* The values the cluster holds for key k, whatever shard holds them.
Held(k) == {store[s][k] : s \in {x \in DOMAIN store : k \in DOMAIN store[x]}}

\* C12: a successful batch_get returns exactly the (key, value) pairs of the
\* requested keys the table has, each with its current value: no absent and no
\* unrequested key, whatever shards the keys are grouped into.
C12_BatchGetPresent ==
    (kvOp.op = "batch_get" /\ kvOp.ok) =>
        {<<kvOp.out[i].key, kvOp.out[i].val>> : i \in DOMAIN kvOp.out}
            = UNION {{<<kvOp.input[i].key, v>> : v \in Held(kvOp.input[i].key)} :
                        i \in DOMAIN kvOp.input}

\* A batch_get over two shards has returned the one of its two keys that is
\* present.
C12_Witness ==
    /\ kvOp.op = "batch_get"
    /\ kvOp.ok
    /\ Cardinality(kvOp.picked) = 2
    /\ Len(kvOp.input) = 2
    /\ Len(kvOp.out) = 1
    /\ kvOp.out[1].key = kvOp.input[2].key

BatchOps == {"batch_get", "batch_set", "batch_upsert"}

\* C13: when the request to any shard fails during batch_get, batch_set or
\* batch_upsert, the call returns the error and no part of a result.
C13_ShardErrorAborts ==
    (kvOp.op \in BatchOps /\ kvOp.picked \cap down # {}) =>
        (~kvOp.ok /\ kvOp.out = <<>>)

\* A batch_upsert over two shards has failed on one of them after the other
\* had served its part.
C13_Witness ==
    /\ kvOp.op = "batch_upsert"
    /\ Cardinality(kvOp.picked) = 2
    /\ kvOp.picked \cap down # {}
    /\ kvOp.applied # {}
    /\ ~kvOp.ok

\* The value the last entry of key k in entries carries.
LastValue(entries, k) ==
    entries[CHOOSE i \in DOMAIN entries :
               /\ entries[i].key = k
               /\ \A j \in DOMAIN entries : entries[j].key = k => j <= i].val

\* C39: when batch_set returns an error because the request to one shard
\* failed, every entry routed to a shard whose request was served is
\* written in the table of that shard.
C39_BatchSetNotAtomic ==
    (kvOp.op = "batch_set" /\ ~kvOp.ok /\ kvOp.picked \cap down # {}) =>
        \A i \in DOMAIN kvOp.input :
            LET k == kvOp.input[i].key
                s == shard_for_key(as_bytes(k)).id
            IN s \in kvOp.applied =>
                  /\ k \in DOMAIN store[s]
                  /\ store[s][k] = LastValue(kvOp.input, k)

\* The first call on empty tables is a batch_set over two shards that has
\* returned an error after one shard had written its entry.
C39_Witness ==
    /\ kvOp.op = "batch_set" /\ ~kvOp.ok
    /\ kvHist.entries = Len(kvOp.input)
    /\ Cardinality(kvOp.picked) = 2
    /\ kvOp.picked \cap down # {}
    /\ \E s \in kvOp.applied : store[s] # EmptyTable

\* C15: a get, set or upsert succeeds whenever at least one replica of the
\* shard owning the key can serve, the client going on to another replica when
\* the one it picked is unavailable.
C15_SucceedsIfSomeReplicaServes ==
    (kvOp.op \in {"get", "set", "upsert"} /\ kvOp.picked # {}) =>
        \A n \in kvOp.picked :
            (Replicas(n[1]) \ down # {}) => kvOp.ok

\* The key of a single-key call is missing from the table of its shard.
Missing(k) == k \notin DOMAIN store[shard_for_key(as_bytes(k)).id]

\* C19: an upsert on a missing key stores the new value as it is and reports
\* Inserted; and as long as the calls made are upserts and batch upserts with
\* U64Add that do not overflow, every key holds, and get returns, the sum of
\* the values supplied for it, repeats within one batch included.
C19_InsertedThenSum ==
    /\ [][\A k \in KvKeys :
             (kvOp.op = "none" /\ kvOp'.op = "upsert" /\ kvOp'.ok
                /\ kvOp'.input[1].key = k /\ Missing(k)) =>
             (/\ Held(k)' = {kvOp'.input[1].val}
              /\ kvOp'.out[1].action = "Inserted")]_vars
    /\ [](kvHist.upsertsOnly =>
             \A k \in KvKeys :
                 Held(k) = IF kvHist.supplied[k] = 0 THEN {} ELSE {U64(kvHist.supplied[k])})
    /\ []((kvOp.op = "get" /\ kvOp.ok /\ kvHist.upsertsOnly) =>
             LET k == kvOp.input[1].key
             IN kvOp.out = IF kvHist.supplied[k] = 0 THEN <<>>
                           ELSE <<[key |-> k, action |-> "none",
                                   val |-> U64(kvHist.supplied[k])]>>)

\* A get has returned the sum of the two values that upserts supplied for
\* its key.
C19_Witness ==
    /\ kvOp.op = "get" /\ kvOp.ok /\ kvHist.upsertsOnly
    /\ Len(kvOp.out) = 1
    /\ \E e \in KvEntries :
          /\ e.key = kvOp.input[1].key
          /\ U64Nat(kvOp.out[1].val) = 2 * U64Nat(e.val)

(***************************************************************************)
(* Table management through the DHT client (ampc/dht/client.rs):           *)
(* drop_table, create_table, clone_table and all_tables.                   *)
(***************************************************************************)

\* Table names, as numbers in the order Table's Ord gives them.
TableNames == {1, 2}
MaxListing == 3

NoAdmOp == [op |-> "none", ok |-> FALSE, out |-> <<>>, visited |-> <<>>]

\* for shard in self.shards.values() { for node in &shard.nodes { .. } }:
\* the shards by ascending id, the nodes of each in the order they were added.
RECURSIVE nodes_in_order(_)
nodes_in_order(ss) ==
    IF ss = <<>> THEN <<>>
    ELSE [i \in 1..Len(shards[Head(ss)]) |-> <<Head(ss), shards[Head(ss)][i]>>]
         \o nodes_in_order(Tail(ss))

\* node.api.X(..).await? inside the loops: the nodes a call reaches, which end
\* with the first node whose request fails.
visited_until_error(order) ==
    LET bad == {i \in DOMAIN order : order[i] \in down}
    IN IF bad = {} THEN order
       ELSE SubSeq(order, 1, CHOOSE i \in bad : \A j \in bad : i <= j)

\* What a replica does to its tables on a request it serves.
admin_apply(op, ts, from, to) ==
    CASE op = "create_table" -> ts \cup {to}
      [] op = "drop_table" -> ts \ {to}
      [] op = "clone_table" -> IF from \in ts THEN ts \cup {to} ELSE ts

\* Vec::sort.
RECURSIVE sort(_)
sort(q) ==
    IF q = <<>> THEN <<>>
    ELSE LET m == CHOOSE i \in DOMAIN q : \A j \in DOMAIN q : q[i] <= q[j]
         IN <<q[m]>> \o sort([i \in 1..(Len(q) - 1) |-> IF i < m THEN q[i] ELSE q[i + 1]])

\* Vec::dedup: consecutive repeated elements removed.
RECURSIVE dedup(_)
dedup(q) ==
    IF Len(q) < 2 THEN q
    ELSE IF q[1] = q[2] THEN dedup(Tail(q))
         ELSE <<q[1]>> \o dedup(Tail(q))

\* tables.sort(); tables.dedup(); Ok(tables)
sort_dedup_unsorted(q) == sort(dedup(q))
sort_dedup(q) == dedup(sort(q))

\* The ways a replica may list the tables it has.
Listings(ts) == {q \in SeqsUpTo(TableNames, MaxListing) : Range(q) = ts}

RECURSIVE Concat(_, _)
Concat(replies, order) ==
    IF order = <<>> THEN <<>>
    ELSE replies[Head(order)] \o Concat(replies, Tail(order))

AdmIdleNow == admOp = NoAdmOp

\* Client::drop_table, create_table, clone_table.
Admin(op, from, to) ==
    /\ op \in {"drop_table", "create_table", "clone_table"}
    /\ LET visited == visited_until_error(nodes_in_order(keys(shards)))
           served == Range(visited) \ down
       IN /\ tables' = [n \in DOMAIN tables |->
                          IF n \in served THEN admin_apply(op, tables[n], from, to)
                          ELSE tables[n]]
          /\ admOp' = [op |-> op, ok |-> Range(visited) \cap down = {},
                       out |-> <<>>, visited |-> visited]
    /\ UNCHANGED <<ids, shards, down>>
    /\ UNCHANGED nonAdmVars

\* Client::all_tables.
AllTables ==
    /\ LET visited == visited_until_error(nodes_in_order(keys(shards)))
           ok == Range(visited) \cap down = {}
       IN \E replies \in [Range(visited) -> SeqsUpTo(TableNames, MaxListing)] :
            /\ \A n \in Range(visited) : replies[n] \in Listings(tables[n])
            /\ admOp' = [op |-> "all_tables", ok |-> ok,
                         out |-> IF ok THEN sort_dedup(Concat(replies, visited)) ELSE <<>>,
                         visited |-> visited]
    /\ UNCHANGED <<ids, shards, down, tables>>
    /\ UNCHANGED nonAdmVars

AdmReturn ==
    /\ ~AdmIdleNow
    /\ admOp' = NoAdmOp
    /\ UNCHANGED <<ids, shards, down, tables>>
    /\ UNCHANGED nonAdmVars

AdmNext ==
    \/ AdmIdleNow /\ \E op \in {"drop_table", "create_table", "clone_table"} :
                        \E from \in TableNames, to \in TableNames : Admin(op, from, to)
    \/ AdmIdleNow /\ AllTables
    \/ AdmReturn
    \/ AdmIdleNow /\ \E n \in AllReplicas : Crash(n)
    \/ AdmIdleNow /\ \E n \in AllReplicas : Recover(n)

InitAdm ==
    /\ KvInit /\ RpcInit /\ StrmIdle /\ AddIdle /\ BootIdle /\ PipelineIdle
    /\ tables = [n \in AllReplicas |-> {}]
    /\ admOp = NoAdmOp

SpecAdm == InitAdm /\ [][AdmNext]_vars

(***************************************************************************)
(* Properties of table management.                                         *)
(***************************************************************************)

\* C14: drop_table, create_table and clone_table are applied to every replica
\* of every shard and succeed only if all of them succeed; otherwise the
\* failure is reported as partial (it names the replicas that failed, the
\* others having been reached).
C14_AdminReachesEveryReplica ==
    admOp.op \in {"drop_table", "create_table", "clone_table"} =>
        /\ Range(admOp.visited) = AllReplicas
        /\ admOp.ok <=> (AllReplicas \cap down = {})

\* C17: all_tables returns the union of the table names the replicas report,
\* ascending and without repetition, whatever order and multiplicity each
\* replica lists them in.
C17_AllTablesSortedUnion ==
    (admOp.op = "all_tables" /\ admOp.ok) =>
        admOp.out = SortedSeq(UNION {tables[n] : n \in AllReplicas})

\* Two replicas hold the same table, a third holds two: the call has listed
\* the two names once each.
C17_Witness ==
    /\ admOp.op = "all_tables" /\ admOp.ok
    /\ Len(admOp.out) = 2
    /\ \E n \in AllReplicas : \E k \in AllReplicas \ {n} :
          tables[n] = {2} /\ tables[k] = {1, 2}

(***************************************************************************)
(* U64Add::upsert on its own (ampc/dht/upsert.rs): the function applied to *)
(* a pair of values under one of the build's profiles.                     *)
(***************************************************************************)

U64Max == <<Limb - 1, Limb - 1, Limb - 1, Limb - 1>>

\* The values the function is tried on: small ones, ones whose sum carries
\* from limb to limb, and ones whose sum does not fit.
U64Samples ==
    {U64(0), U64(1), U64(Limb - 1), <<0, 0, 1, 0>>, <<0, 0, 0, Limb \div 2>>, U64Max}

InitAdd ==
    /\ RpcInit /\ DhtIdle /\ KvIdle /\ AdmIdle /\ StrmIdle /\ BootIdle /\ PipelineIdle
    /\ addOp \in [pc : {"call"}, old : U64Samples, new : U64Samples,
                  profile : Profiles, panic : {FALSE}, value : {U64(0)}]

\* The server merges the old value of a key with the new one.
U64AddCall ==
    /\ addOp.pc = "call"
    /\ LET r == U64AddUpsert(addOp.old, addOp.new, addOp.profile)
       IN addOp' = [addOp EXCEPT !.pc = "done", !.panic = r.panic, !.value = r.value]
    /\ UNCHANGED nonAddVars

AddNext == U64AddCall

SpecAdd == InitAdd /\ [][AddNext]_vars

\* C18: U64Add.upsert is defined for every pair of u64 values: when the sum
\* does not fit it returns the saturated or the wrapped sum, and it never
\* aborts.
C18_U64AddTotal ==
    addOp.pc = "done" =>
        LET r == overflowing_add(addOp.old, addOp.new)
        IN /\ ~addOp.panic
           /\ addOp.value \in {r.value, IF r.overflow THEN U64Max ELSE r.value}

(***************************************************************************)
(* Node::stream (ampc/dht/client.rs): a table read batch by batch with     *)
(* range_get.  Keys are numbers in the order of Key's Ord; the value of a  *)
(* key does not change and is left out of the items.                       *)
(***************************************************************************)

\* The keys a table may hold are 1..MaxStreamKeys.
MaxStreamKeys == 5
\* const STREAM_BATCH_SIZE: usize = 1024, scaled down to batches of two.
STREAM_BATCH_SIZE == 2

\* prev_key.as_ref().cloned().map_or(Bound::Unbounded, Bound::Excluded);
\* prev_key 0 is None.
lower_bound_included(prev_key) ==
    IF prev_key = 0 THEN [kind |-> "Unbounded", key |-> 0]
    ELSE [kind |-> "Included", key |-> prev_key]
lower_bound(prev_key) ==
    IF prev_key = 0 THEN [kind |-> "Unbounded", key |-> 0]
    ELSE [kind |-> "Excluded", key |-> prev_key]

\* The table's answer to range_get(lo..Unbounded, Some(limit)): the first
\* limit keys within the range, ascending.
range_get(table, lo, limit) ==
    LET within == {k \in table : CASE lo.kind = "Unbounded" -> TRUE
                                   [] lo.kind = "Excluded" -> k > lo.key
                                   [] lo.kind = "Included" -> k >= lo.key}
        all == SortedSeq(within)
    IN IF Len(all) <= limit THEN all ELSE SubSeq(all, 1, limit)

\* An item of the stream: Ok((key, value)) or Err(e).
OkItem(k) == [ok |-> TRUE, key |-> k]
ErrItem == [ok |-> FALSE, key |-> 0]

InitStream ==
    /\ RpcInit /\ DhtIdle /\ KvIdle /\ AdmIdle /\ AddIdle /\ BootIdle /\ PipelineIdle
    /\ \E table \in SUBSET (1..MaxStreamKeys) :
          strm = [table |-> table, prev_key |-> 0, batch |-> <<>>, yielded |-> <<>>,
                  pc |-> "request"]

\* let batch = self.range_get(..).await?; if batch.is_empty() { break; }
\* Inside stream! the `?` on an error yields Err(e) and ends the stream.
StreamRequest ==
    /\ strm.pc = "request"
    /\ \/ strm' = [strm EXCEPT !.yielded = Append(@, ErrItem), !.pc = "done"]
       \/ LET batch == range_get(strm.table, lower_bound(strm.prev_key), STREAM_BATCH_SIZE)
          IN strm' = [strm EXCEPT !.batch = batch,
                                  !.pc = IF batch = <<>> THEN "done" ELSE "yield"]
    /\ UNCHANGED nonStrmVars

\* for (key, value) in batch { yield Ok((key.clone(), value)); prev_key = Some(key); }
StreamYield ==
    /\ strm.pc = "yield"
    /\ strm' = [strm EXCEPT !.yielded = Append(@, OkItem(Head(strm.batch))),
                            !.prev_key = Head(strm.batch),
                            !.batch = Tail(@),
                            !.pc = IF Tail(strm.batch) = <<>> THEN "request" ELSE "yield"]
    /\ UNCHANGED nonStrmVars

StreamNext == StreamRequest \/ StreamYield

SpecStream == InitStream /\ [][StreamNext]_vars

\* C16: over a table that does not change, Node::stream yields the keys in
\* increasing order, each at most once, and when it ends without an error it
\* has yielded every key of the table; a range_get that fails yields one error
\* item and ends the stream.
C16_StreamYieldsEachKeyOnce ==
    LET q == strm.yielded
        n == Len(q)
    IN /\ \A i \in 1..n : q[i].ok => q[i].key \in strm.table
       /\ \A i \in 1..n : \A j \in 1..n : (i < j /\ q[j].ok) => (q[i].ok /\ q[i].key < q[j].key)
       /\ \A i \in 1..n : ~q[i].ok => (i = n /\ strm.pc = "done")
       /\ (strm.pc = "done" /\ (n = 0 \/ q[n].ok)) =>
              {q[i].key : i \in 1..n} = strm.table

\* The stream has ended after two full batches and an empty one.
C16_Witness ==
    /\ strm.pc = "done"
    /\ Len(strm.yielded) = 2 * STREAM_BATCH_SIZE
    /\ \A i \in DOMAIN strm.yielded : strm.yielded[i].ok

(***************************************************************************)
(* Start of a DHT node (entrypoint/ampc/dht.rs, run).  Hosts are the       *)
(* strings config.host.to_string() gives, as the membership keeps them.    *)
(***************************************************************************)

NodeIds == {1, 2}
Hosts == {"a", "b"}

\* The memberships a seed may report: node id -> address.
Memberships == UNION {[ns -> Hosts] : ns \in SUBSET NodeIds}

\* metrics.membership_config.nodes()
\*     .any(|(id, node)| *id == config.node_id || node.addr == config.host.to_string())
already_member_by_id(membership, node_id, host) ==
    \E id \in DOMAIN membership : id = node_id
already_member(membership, node_id, host) ==
    \E id \in DOMAIN membership : id = node_id \/ membership[id] = host

InitBoot ==
    /\ RpcInit /\ DhtIdle /\ KvIdle /\ AdmIdle /\ StrmIdle /\ AddIdle /\ PipelineIdle
    /\ boot \in [node_id : NodeIds, host : Hosts, seed : BOOLEAN,
                 membership : Memberships, pc : {"bind"}, err : {"none"},
                 bound : {FALSE}, join_called : {FALSE}, accepts : {0}]

BootFail(e) == boot' = [boot EXCEPT !.pc = "failed", !.err = e]

\* dht::Server::new(..).bind(config.host).await?
BootBind ==
    /\ boot.pc = "bind"
    /\ \/ BootFail("bind")
       \/ boot' = [boot EXCEPT !.bound = TRUE,
                               !.pc = IF boot.seed THEN "seed" ELSE "initialize"]
    /\ UNCHANGED nonBootVars

\* Some(seed): RaftClient::new(seed).await?, client.metrics().await?, then the
\* membership check, which bails out when the node is already a member.
BootSeed ==
    /\ boot.pc = "seed"
    /\ \/ BootFail("seed")
       \/ IF already_member(boot.membership, boot.node_id, boot.host)
          THEN BootFail("already member")
          ELSE boot' = [boot EXCEPT !.pc = "join"]
    /\ UNCHANGED nonBootVars

\* client.join(config.node_id, config.host).await?
BootJoin ==
    /\ boot.pc = "join"
    /\ \/ boot' = [boot EXCEPT !.join_called = TRUE, !.pc = "failed", !.err = "join"]
       \/ boot' = [boot EXCEPT !.join_called = TRUE, !.pc = "accept"]
    /\ UNCHANGED nonBootVars

\* None: raft.initialize(members), NotAllowed tolerated.
BootInitialize ==
    /\ boot.pc = "initialize"
    /\ \/ BootFail("initialize")
       \/ boot' = [boot EXCEPT !.pc = "accept"]
    /\ UNCHANGED nonBootVars

MaxAccepts == 2

\* The optional Cluster::join(..).await?, then loop { server.accept().await?; }
BootAccept ==
    /\ boot.pc = "accept"
    /\ \/ boot.accepts = 0 /\ BootFail("gossip")
       \/ BootFail("accept")
       \/ boot.accepts < MaxAccepts /\ boot' = [boot EXCEPT !.accepts = @ + 1]
    /\ UNCHANGED nonBootVars

BootNext == BootBind \/ BootSeed \/ BootJoin \/ BootInitialize \/ BootAccept

SpecBoot == InitBoot /\ [][BootNext]_vars

\* The node's id or its host appears in the membership the seed reports.
InMembership ==
    \/ boot.node_id \in DOMAIN boot.membership
    \/ \E id \in DOMAIN boot.membership : boot.membership[id] = boot.host

\* C20: a node started with a seed calls join on the seed only if neither its
\* node_id nor its host appears in the membership the seed reports; otherwise
\* startup fails, join is never called and the node never accepts a
\* connection.
C20_JoinOnlyIfNotMember ==
    boot.seed =>
        /\ boot.join_called => ~InMembership
        /\ InMembership =>
              /\ ~boot.join_called
              /\ boot.accepts = 0 /\ boot.pc # "accept"
              /\ boot.pc \notin {"bind", "seed"} => boot.pc = "failed"

\* The start has failed at the membership check because another node of the
\* membership has this node's host.
C20_Witness ==
    /\ boot.seed /\ boot.bound
    /\ boot.pc = "failed" /\ boot.err = "already member"
    /\ boot.node_id \notin DOMAIN boot.membership

(***************************************************************************)
(* StreamingResponseStream (distributed/streaming_response.rs): a stream   *)
(* over a source of batches.  A poll that finds the source Pending returns *)
(* Pending and changes nothing; the polls below are the ones that return   *)
(* Ready.                                                                  *)
(***************************************************************************)

SrItems == {1, 2}
MaxBatchLen == 2
MaxBatches == 2
MaxPollsNeeded == 2
MaxCalls == 3

\* The non-empty batches a source may return.
SrBatches == SeqsUpTo(SrItems, MaxBatchLen) \ {<<>>}

\* What the first poll of a new call of next_batch gives: Pending when a
\* call of this source needs more than one poll; otherwise Err(_), or Ok of
\* the next batch of the source, which is empty when the source has no
\* batch left.
NextBatchResults(source, needs) ==
    IF needs > 1
    THEN {[ready |-> FALSE, ok |-> FALSE, batch |-> <<>>]}
    ELSE {[ready |-> TRUE, ok |-> FALSE, batch |-> <<>>],
          [ready |-> TRUE, ok |-> TRUE,
           batch |-> IF source = <<>> THEN <<>> ELSE Head(source)]}

\* batch.is_empty(), the test that makes poll_next pull the next batch.
is_empty_or_last(b) == Len(b) <= 1
is_empty(b) == b = <<>>

\* batch.pop(): the last element of the Vec, and the Vec without it.
pop(b) == [item |-> <<b[Len(b)]>>, rest |-> SubSeq(b, 1, Len(b) - 1)]

\* poll_next on the buffer `batch` (<<>> is None, <<b>> is Some(b)) when
\* next_batch, if it is called, gives r on the one poll its future gets: the
\* new buffer, the item returned (<<>> is None), whether next_batch was
\* called, and whether poll_next returned Pending.  The future is a local
\* of poll_next and is dropped when poll_next returns.
poll_next(batch, r) ==
    IF batch = <<>> \/ is_empty(batch[1])
    THEN IF ~r.ready
         THEN [batch |-> batch, item |-> <<>>, called |-> TRUE, error |-> FALSE,
               pending |-> TRUE]
         ELSE IF ~r.ok \/ r.batch = <<>>
         THEN [batch |-> batch, item |-> <<>>, called |-> TRUE, error |-> ~r.ok,
               pending |-> FALSE]
         ELSE LET b == IF batch = <<>> THEN r.batch ELSE batch[1] \o r.batch
              IN [batch |-> <<pop(b).rest>>, item |-> pop(b).item,
                  called |-> TRUE, error |-> FALSE, pending |-> FALSE]
    ELSE [batch |-> <<pop(batch[1]).rest>>, item |-> pop(batch[1]).item,
          called |-> FALSE, error |-> FALSE, pending |-> FALSE]

InitSr ==
    /\ RpcInit /\ DhtSideIdle /\ CoordIdle /\ IdxIdle /\ MrgIdle /\ WarcIdle /\ AuxIdle
    /\ \E source \in SeqsUpTo(SrBatches, MaxBatches), needs \in 1..MaxPollsNeeded :
          sr = [source |-> source, needs |-> needs, batch |-> <<>>, pulled |-> <<>>,
                yielded |-> <<>>, pc |-> "open", error |-> FALSE,
                called |-> FALSE, pending |-> FALSE, calls |-> 0]

\* One poll of the stream by its consumer, who polls again after Pending
\* and stops at the first None.  calls counts the calls of next_batch made
\* for the batch asked for last.
SrPoll ==
    /\ sr.pc = "open" /\ sr.calls < MaxCalls
    /\ \E r \in NextBatchResults(sr.source, sr.needs) :
          LET p == poll_next(sr.batch, r)
              took == p.called /\ r.ready /\ r.ok /\ r.batch # <<>>
          IN sr' = [source |-> IF took THEN Tail(sr.source) ELSE sr.source,
                    needs |-> sr.needs,
                    batch |-> p.batch,
                    pulled |-> IF took THEN Append(sr.pulled, r.batch) ELSE sr.pulled,
                    yielded |-> sr.yielded \o p.item,
                    pc |-> IF p.item = <<>> /\ ~p.pending THEN "ended" ELSE "open",
                    error |-> p.error,
                    called |-> p.called, pending |-> p.pending,
                    calls |-> IF ~p.called THEN sr.calls
                              ELSE IF sr.pending THEN sr.calls + 1 ELSE 1]
    /\ UNCHANGED nonSrVars

SrNext == SrPoll

SpecSr == InitSr /\ [][SrNext]_vars

RECURSIVE Flat(_)
Flat(batches) == IF batches = <<>> THEN <<>> ELSE Head(batches) \o Flat(Tail(batches))

\* C29: for a source that returns b1, ..., bn and then an empty batch, the
\* stream yields b1 ++ ... ++ bn, every batch from its first item to its
\* last, and then ends.
C29_YieldsConcatenation ==
    /\ \E n \in 0..Len(Flat(sr.pulled)) : sr.yielded = SubSeq(Flat(sr.pulled), 1, n)
    /\ (sr.pc = "ended" /\ ~sr.error) => sr.yielded = Flat(sr.pulled)

\* C30: when next_batch returns an error, on the first pull or on a later one,
\* the stream ends without yielding the error, and every item of the batches
\* pulled before has been yielded.
C30_ErrorEndsStream ==
    sr.error =>
        /\ sr.pc = "ended"
        /\ Len(sr.yielded) = Len(Flat(sr.pulled))
        /\ \A x \in SrItems :
              Cardinality({i \in DOMAIN sr.yielded : sr.yielded[i] = x})
                  = Cardinality({i \in 1..Len(Flat(sr.pulled)) : Flat(sr.pulled)[i] = x})

\* The stream has ended on an error of the second pull, after the two items
\* of the first batch.
C30_Witness ==
    /\ sr.error /\ sr.pc = "ended"
    /\ Len(sr.pulled) = 1 /\ Len(sr.yielded) = 2

\* The buffer holds nothing, or what is left of the batch pulled last.
OneBatchBuffered ==
    sr.batch # <<>> /\ sr.batch[1] # <<>> =>
        /\ sr.pulled # <<>>
        /\ \E n \in 1..Len(sr.pulled[Len(sr.pulled)]) :
              sr.batch[1] = SubSeq(sr.pulled[Len(sr.pulled)], 1, n)

\* A poll that calls next_batch starts with a buffer that holds no item and
\* with every item of the batches pulled so far yielded.
CalledWhenEmpty ==
    sr'.called =>
        /\ sr.batch = <<>> \/ sr.batch[1] = <<>>
        /\ Len(sr.yielded) = Len(Flat(sr.pulled))

\* C35: next_batch is called only when the buffer holds no item, every item
\* of the batch pulled before has been yielded by then, at most one batch is
\* buffered at any time, and a batch is pulled in a poll only.
C35_PullsOnlyWhenEmpty ==
    /\ []OneBatchBuffered
    /\ [][CalledWhenEmpty]_vars
    /\ [][sr'.pulled # sr.pulled => SrPoll]_vars

\* The second batch has been pulled by a poll that found the buffer empty
\* after the two items of the first batch, and one item of it is buffered.
C35_Witness ==
    /\ sr.called /\ Len(sr.pulled) = 2 /\ Len(sr.pulled[1]) = 2
    /\ Len(sr.yielded) = 3
    /\ sr.batch # <<>> /\ Len(sr.batch[1]) = 1

\* C36: a call of next_batch that returned Pending is continued by the next
\* poll, so that no batch is asked for by more than one call.
C36_PendingCallContinued ==
    sr.calls <= 1

(***************************************************************************)
(* AMPC rounds (ampc/mod.rs gives the requests CurrentJob, ScheduleJob and *)
(* Setup and the results JobScheduled::Success / NoAvailableWorkers; the   *)
(* coordinator that uses them is modelled from the round protocol).        *)
(***************************************************************************)

MaxWorkers == 3
Workers == 1..MaxWorkers
\* Worker 1 answers every request; the others may fail a ScheduleJob.
Reliable == {1}
MaxTasks == 3
MaxRounds == 2
Tasks == 1..MaxTasks

\* CoordResp::CurrentJob(Option<J>) of worker w: 0 is None.
CurrentJob(running, w) == running[w]

\* The workers a task may be given to: in the pool of the round and idle.
available_any(running, removed) == {w \in Workers : CurrentJob(running, w) = 0}
available(running, removed) ==
    {w \in Workers \ removed : CurrentJob(running, w) = 0}

\* Every worker of the pool answers CurrentJob with no job.
all_idle_unchecked(running, removed) == TRUE
all_idle(running, removed) ==
    \A w \in Workers \ removed : CurrentJob(running, w) = 0

InitCoord ==
    /\ RpcInit /\ DhtSideIdle /\ IdxIdle /\ MrgIdle /\ WarcIdle /\ SrIdle /\ AuxIdle
    /\ coord = [round |-> 1, pc |-> "schedule", pending |-> Tasks,
                running |-> [w \in Workers |-> 0], removed |-> {},
                last |-> "none", worker |-> 0, decided |-> 0]

\* The coordinator schedules a pending task: Success(worker) when an idle
\* worker of the pool takes it; a worker that fails the ScheduleJob or times
\* out leaves the pool of the round and the task stays pending;
\* NoAvailableWorkers when the pool has no idle worker, the task staying
\* pending while the coordinator waits.
CoordSchedule(t) ==
    /\ coord.pc = "schedule" /\ t \in coord.pending
    /\ LET idle == available(coord.running, coord.removed)
       IN IF idle = {}
          THEN coord' = [coord EXCEPT !.last = "NoAvailableWorkers", !.worker = 0]
          ELSE \E w \in idle :
                 \/ coord' = [coord EXCEPT !.last = "Success", !.worker = w,
                                           !.running[w] = t,
                                           !.pending = @ \ {t}]
                 \/ /\ w \notin Reliable
                    /\ coord' = [coord EXCEPT !.last = "Failed", !.worker = w,
                                              !.removed = @ \cup {w}]
    /\ UNCHANGED nonCoordVars

\* A worker finishes the task it runs.
WorkerFinish(w) ==
    /\ coord.running[w] # 0
    /\ coord' = [coord EXCEPT !.running[w] = 0, !.last = "none", !.worker = 0]
    /\ UNCHANGED nonCoordVars

\* All tasks scheduled: the coordinator polls CurrentJob until every worker
\* is idle, then evaluates the finisher.
CoordAwait ==
    /\ coord.pc = "schedule" /\ coord.pending = {}
    /\ all_idle(coord.running, coord.removed)
    /\ coord' = [coord EXCEPT !.pc = "finish", !.last = "none", !.worker = 0]
    /\ UNCHANGED nonCoordVars

\* The finisher decides: the job is finished, or another round with a new
\* set of mappers, for which every worker is in the pool again.
CoordFinish ==
    /\ coord.pc = "finish"
    /\ \/ coord' = [coord EXCEPT !.pc = "done", !.decided = coord.round]
       \/ /\ coord.round < MaxRounds
          /\ coord' = [coord EXCEPT !.pc = "schedule", !.decided = coord.round,
                                    !.round = @ + 1, !.pending = Tasks,
                                    !.removed = {}]
    /\ UNCHANGED nonCoordVars

CoordNext ==
    \/ \E t \in Tasks : CoordSchedule(t)
    \/ \E w \in Workers : WorkerFinish(w)
    \/ CoordAwait
    \/ CoordFinish

SpecCoord == InitCoord /\ [][CoordNext]_vars

\* The coordinator and the workers keep taking their steps, and a finisher
\* that may end the job does so at some round.
SpecCoordFair ==
    /\ InitCoord /\ [][CoordNext]_vars
    /\ WF_vars(CoordNext)
    /\ \A t \in Tasks :
          SF_vars(CoordSchedule(t) /\ coord'.last = "Success")
    /\ \A w \in Workers : WF_vars(WorkerFinish(w))
    /\ WF_vars(CoordAwait)
    /\ SF_vars(CoordFinish /\ coord'.pc = "done")

\* C21: the finisher of a round is evaluated only after all tasks of the round
\* have been scheduled and every worker has answered CurrentJob with no job,
\* and no task of the next round is scheduled before the finisher of the
\* current round has decided.
C21_FinisherAfterRound ==
    /\ [](coord.pc = "finish" =>
             (coord.pending = {} /\ \A w \in Workers : coord.running[w] = 0))
    /\ [][(\E w \in Workers : coord'.running[w] # 0 /\ coord.running[w] = 0) =>
             (coord'.round = coord.round /\ coord.decided = coord.round - 1)]_vars
    /\ [][coord'.decided # coord.decided => coord.pc = "finish"]_vars

\* A task of the second round runs after the finisher of the first decided.
C21_Witness ==
    /\ coord.round = 2 /\ coord.decided = 1
    /\ coord.last = "Success" /\ coord.running[coord.worker] # 0

\* C22: a worker that fails a ScheduleJob or times out gets no further task
\* in that round and the task is retried on another worker; NoAvailableWorkers
\* makes the coordinator wait without dropping the task; and with a worker
\* that stays available every task of the round is scheduled with Success and
\* the round ends.
C22_RetryOnAnotherWorker ==
    /\ [][(coord'.last \in {"Success", "Failed"} /\ coord' # coord) =>
             coord'.worker \notin coord.removed]_vars
    /\ [][(coord'.last = "Failed" /\ coord' # coord) =>
             (coord'.pending = coord.pending /\ coord'.worker \in coord'.removed)]_vars
    /\ [][coord'.last = "NoAvailableWorkers" => coord'.pending = coord.pending]_vars
    /\ \A r \in 1..MaxRounds :
          (coord.round = r /\ coord.pc = "schedule") ~>
              (coord.round = r /\ coord.pc = "finish")

\* The last task of a round has been scheduled with Success after another
\* worker had failed and left the pool of the round.
C22_Witness ==
    /\ coord.last = "Success" /\ coord.pending = {}
    /\ coord.removed # {}

(***************************************************************************)
(* Indexing jobs (entrypoint/indexer/job.rs, mod.rs) and the webgraph      *)
(* worker (entrypoint/webgraph.rs) over the records of WARC files.  In     *)
(* "index" mode one job per file runs in parallel on a shared              *)
(* IndexingWorker; in "graph" mode one WebgraphWorker reads the files one  *)
(* after the other.                                                        *)
(***************************************************************************)

MaxRecords == 3
Files == {1, 2}

\* The records of the model: a url and the payload type of the response
\* ("None" when the record has none).
RecordKinds ==
    {[url |-> 1, ptype |-> "Html"], [url |-> 2, ptype |-> "None"],
     [url |-> 3, ptype |-> "Html"], [url |-> 1, ptype |-> "Pdf"],
     [url |-> 2, ptype |-> "Rss"], [url |-> 3, ptype |-> "Atom"]}

\* .filter(|record| match &record.response.payload_type {
\*     Some(payload_type) => matches!(payload_type, PayloadType::Html), None => true })
is_html_or_unspecified(record) == record.ptype \in {"Html", "None"}

\* IndexingWorker::see, a bloom filter over the url hash: the bits of a url,
\* and the test that also sets them.
BloomBits(url) == CASE url = 1 -> {1, 2} [] url = 2 -> {3, 4} [] url = 3 -> {2, 3}
see(bits, url) == [seen |-> BloomBits(url) \subseteq bits, bits |-> bits \cup BloomBits(url)]

\* .filter(|record| !worker.see(&record.request.url))
not_seen_unfiltered(seen) == TRUE
not_seen(seen) == ~seen

InitIdx ==
    /\ RpcInit /\ DhtSideIdle /\ CoordIdle /\ MrgIdle /\ WarcIdle /\ SrIdle /\ AuxIdle
    /\ \E mode \in {"index", "graph"} :
       \E files \in [Files -> SeqsUpTo(RecordKinds, MaxRecords)] :
          /\ Len(files[1]) + Len(files[2]) <= MaxRecords
          /\ ixr = [mode |-> mode, files |-> files, pos |-> [f \in Files |-> 0],
                    bits |-> {}, reached |-> <<>>, inserted |-> <<>>, links |-> <<>>]

\* Job::process on the next record of its file: the payload filter, the
\* dedup filter, then the page is inserted into the index of the job
\* (prepare_webpages is taken to keep every page, the insert to succeed).
IdxRecord(f) ==
    /\ ixr.mode = "index" /\ ixr.pos[f] < Len(ixr.files[f])
    /\ LET n == ixr.pos[f] + 1
           record == ixr.files[f][n]
           item == [url |-> record.url, ptype |-> record.ptype, file |-> f, n |-> n]
           r == see(ixr.bits, record.url)
       IN IF ~is_html_or_unspecified(record)
          THEN ixr' = [ixr EXCEPT !.pos[f] = n]
          ELSE ixr' = [ixr EXCEPT !.pos[f] = n, !.bits = r.bits,
                                  !.reached = Append(@, item),
                                  !.inserted = IF not_seen(r.seen) THEN Append(@, item)
                                               ELSE @]
    /\ UNCHANGED nonIdxVars

\* WebgraphWorker::process_job on the next record: Html::parse_without_text of
\* the body, which may fail, then the links of the page go to the graphs.
GraphRecord(f) ==
    /\ ixr.mode = "graph" /\ ixr.pos[f] < Len(ixr.files[f])
    /\ \A g \in Files : g < f => ixr.pos[g] = Len(ixr.files[g])
    /\ LET n == ixr.pos[f] + 1
           record == ixr.files[f][n]
           item == [url |-> record.url, ptype |-> record.ptype, file |-> f, n |-> n]
       IN \/ ixr' = [ixr EXCEPT !.pos[f] = n]
          \/ ixr' = [ixr EXCEPT !.pos[f] = n, !.links = Append(@, item)]
    /\ UNCHANGED nonIdxVars

IdxNext ==
    \/ \E f \in Files : IdxRecord(f)
    \/ \E f \in Files : GraphRecord(f)

SpecIdx == InitIdx /\ [][IdxNext]_vars

Urls == {k.url : k \in RecordKinds}
WithUrl(q, u) == {i \in DOMAIN q : q[i].url = u}
First(I) == CHOOSE i \in I : \A j \in I : i <= j

C24_OnlyHtmlEntersPipeline ==
    /\ \A i \in DOMAIN ixr.inserted : ixr.inserted[i].ptype \in {"Html", "None"}
    /\ \A i \in DOMAIN ixr.links : ixr.links[i].ptype \in {"Html", "None"}

(***************************************************************************)
(* merge (entrypoint/indexer/mod.rs): the partial indexes are merged by    *)
(* one thread per chunk, then the results of the threads by the caller.    *)
(* Pointer i names the directory of the i-th partial index; the pointers   *)
(* name different directories, and Index::merge leaves its result in the   *)
(* directory of the index it is called on.                                 *)
(***************************************************************************)

MaxIndexes == 5
MaxCores == 3

\* ((num_indexes as f64) / (num_cores as f64)).ceil() as usize
chunk_size_floor(num_indexes, num_cores) == num_indexes \div num_cores
chunk_size(num_indexes, num_cores) == (num_indexes + num_cores - 1) \div num_cores

\* for _ in 0..(num_cores + 1) { it.by_ref().take(size).collect_vec(); break if empty }
RECURSIVE take_chunks(_, _, _, _)
take_chunks(next, num_indexes, size, rounds) ==
    IF rounds = 0 \/ size = 0 \/ next > num_indexes THEN <<>>
    ELSE LET last == IF next + size - 1 <= num_indexes THEN next + size - 1
                     ELSE num_indexes
         IN <<[i \in 1..(last - next + 1) |-> next + i - 1]>>
            \o take_chunks(last + 1, num_indexes, size, rounds - 1)

MergeChunks(n, c) == take_chunks(1, n, chunk_size(n, c), c + 1)

\* Who has opened, merged and deleted a pointer: threads are 1.., the caller 0.
NoLog(n) == [q \in 1..n |-> <<>>]

InitMrg ==
    /\ RpcInit /\ DhtSideIdle /\ CoordIdle /\ IdxIdle /\ WarcIdle /\ SrIdle /\ AuxIdle
    /\ \E n \in 0..MaxIndexes, c \in 1..MaxCores :
          mrg = [n |-> n, chunks |-> MergeChunks(n, c),
                 at |-> [t \in 1..Len(MergeChunks(n, c)) |-> 0],
                 main |-> 0, opened |-> NoLog(n), merged |-> NoLog(n),
                 deleted |-> NoLog(n), status |-> "merging"]

\* mrg.at[t]: 0 not started; 2i-1: the i-th index of the chunk is open (and,
\* for i > 1, merged); 2i: it is deleted; the thread is done at its last one.
ThreadDone(t) ==
    mrg.at[t] = IF Len(mrg.chunks[t]) = 1 THEN 1 ELSE 2 * Len(mrg.chunks[t])

\* A thread opens the first index of its chunk; or opens the next one and
\* merges it into its index; or removes the directory of the one just merged.
ThreadStep(t) ==
    /\ t \in DOMAIN mrg.chunks /\ ~ThreadDone(t)
    /\ LET k == mrg.at[t]
           i == IF k = 0 THEN 1 ELSE IF k = 1 THEN 2 ELSE (k \div 2) + 1
           q == mrg.chunks[t][i]
       IN IF k = 0
          THEN mrg' = [mrg EXCEPT !.at[t] = 1, !.opened[q] = Append(@, t)]
          ELSE IF k % 2 = 0 \/ k = 1
          THEN mrg' = [mrg EXCEPT !.at[t] = 2 * i - 1,
                                  !.opened[q] = Append(@, t),
                                  !.merged[q] = Append(@, t)]
          ELSE mrg' = [mrg EXCEPT !.at[t] = k + 1,
                                  !.deleted[mrg.chunks[t][(k + 1) \div 2]] = Append(@, t)]
    /\ UNCHANGED nonMrgVars

\* The caller, once every thread is joined: the result of thread 1 takes the
\* result of each other thread by merge, then its directory is removed.
MainStep ==
    /\ \A t \in DOMAIN mrg.chunks : ThreadDone(t)
    /\ mrg.main < 2 * (Len(mrg.chunks) - 1)
    /\ LET t == (mrg.main \div 2) + 2
           q == mrg.chunks[t][1]
       IN IF mrg.main % 2 = 0
          THEN mrg' = [mrg EXCEPT !.main = @ + 1, !.merged[q] = Append(@, 0)]
          ELSE mrg' = [mrg EXCEPT !.main = @ + 1, !.deleted[q] = Append(@, 0)]
    /\ UNCHANGED nonMrgVars

\* let mut index = it.next().unwrap() on the results of the threads: next()
\* is None, and unwrap panics, when no thread was spawned.
unwrap_none_never(indexes) == FALSE
unwrap_none(indexes) == indexes = <<>>

\* merge ends: by the panic of that unwrap, or, after the results of the
\* other threads are merged, with Ok(index).
MergeEnd ==
    /\ mrg.status = "merging"
    /\ \A t \in DOMAIN mrg.chunks : ThreadDone(t)
    /\ mrg.main >= 2 * (Len(mrg.chunks) - 1)
    /\ mrg' = [mrg EXCEPT !.status = IF unwrap_none(mrg.chunks) THEN "panicked"
                                      ELSE "ok"]
    /\ UNCHANGED nonMrgVars

\* run, after merge(indexes)? has given the index: crate::mv(index.path(),
\* &config.output_path) publishes it.
RunPublish ==
    /\ mrg.status = "ok"
    /\ mrg' = [mrg EXCEPT !.status = "published"]
    /\ UNCHANGED nonMrgVars

MrgNext ==
    \/ \E t \in 1..(MaxCores + 2) : ThreadStep(t)
    \/ MainStep
    \/ MergeEnd
    \/ RunPublish

SpecMrg == InitMrg /\ [][MrgNext]_vars

MergeDone ==
    /\ \A t \in DOMAIN mrg.chunks : ThreadDone(t)
    /\ mrg.main = 2 * (Len(mrg.chunks) - 1)

\* C25: the pointers are split into contiguous chunks, every pointer in
\* exactly one; every index but the one the result is built on is merged
\* once and its directory deleted once, after its merge, and no index is
\* opened or deleted by two threads.
C25_MergeOnceDeleteOnce ==
    /\ Flat(mrg.chunks) = [i \in 1..mrg.n |-> i]
    /\ \A t \in DOMAIN mrg.chunks : mrg.chunks[t] # <<>>
    /\ \A q \in 1..mrg.n :
          /\ Len(mrg.opened[q]) <= 1 /\ Len(mrg.merged[q]) <= 1
          /\ Len(mrg.deleted[q]) <= 1
          /\ Len(mrg.deleted[q]) = 1 => Len(mrg.merged[q]) = 1
          /\ MergeDone =>
                Len(mrg.merged[q]) = (IF q = 1 THEN 0 ELSE 1)
                /\ Len(mrg.deleted[q]) = (IF q = 1 THEN 0 ELSE 1)

\* Five indexes merged by three threads and the caller.
C25_Witness ==
    /\ MergeDone /\ mrg.n = MaxIndexes /\ Len(mrg.chunks) = 3
    /\ mrg.deleted[3] = <<0>> /\ mrg.deleted[2] = <<1>>

CR == "CR"
LF == "LF"
SP == " "
COLON == ":"
CRLF == <<CR, LF>>
Whitespace == {CR, LF, SP}

MaxWarcLen == 3

\* format!("{}", n) and str::parse: a number is written as its decimal
\* numeral, and only a numeral parses.
Numerals == <<"0", "1", "2", "3", "4", "5", "6", "7", "8", "9", "10", "11", "12",
              "13", "14", "15", "16">>
to_string(n) == <<Numerals[n + 1]>>
is_number(v) == Len(v) = 1 /\ \E i \in DOMAIN Numerals : Numerals[i] = v[1]
parse(v) == (CHOOSE i \in DOMAIN Numerals : Numerals[i] = v[1]) - 1

to_uppercase(c) ==
    CASE c = "WARC-Type" -> "WARC-TYPE"
      [] c = "WARC-Target-URI" -> "WARC-TARGET-URI"
      [] c = "Content-Length" -> "CONTENT-LENGTH"
      [] c = "WARC-Identified-Payload-Type" -> "WARC-IDENTIFIED-PAYLOAD-TYPE"
      [] c = "a" -> "A"
      [] c = "b" -> "B"
      [] c = "c" -> "C"
      [] c = "x" -> "X"
      [] c = "y" -> "Y"
      [] OTHER -> c

\* Display for PayloadType, and FromStr for PayloadType (Option::ok of it).
PayloadDisplay(p) ==
    CASE p = "Html" -> "text/html"
      [] p = "Pdf" -> "application/pdf"
      [] p = "Rss" -> "application/rss"
      [] p = "Atom" -> "application/atom"

from_str(v) ==
    IF v \in {<<"application/html">>, <<"text/html">>} THEN "Html"
    ELSE IF v = <<"application/pdf">> THEN "Pdf"
    ELSE IF v \in {<<"application/rss">>, <<"application/rss+xml">>} THEN "Rss"
    ELSE IF v \in {<<"application/atom">>, <<"application/atom+xml">>} THEN "Atom"
    ELSE "None"

\* One header line as the writer formats it: "Name: value\r\n".
HeaderLine(name, value) == <<name, COLON, SP>> \o value \o CRLF

VersionLine == <<"WARC/1.0">> \o CRLF

\* WarcWriter::new: the warcinfo record every file starts with.
warc_info ==
    VersionLine \o HeaderLine("WARC-Type", <<"warcinfo">>)
    \o HeaderLine("Content-Length", to_string(1)) \o CRLF
    \o <<"ISPARTOF: crawl[date]">> \o CRLF \o CRLF

\* The three raw records WarcWriter::write emits for one record.  With
\* wellformed = FALSE the raw record still has its frame, but lacks what
\* from_raw needs: the target URI, the blank line before the body, the
\* fetchTimeMs field.
raw_request(url, wellformed) ==
    VersionLine \o HeaderLine("WARC-Type", <<"request">>)
    \o (IF wellformed THEN HeaderLine("WARC-Target-URI", url) ELSE <<>>)
    \o HeaderLine("Content-Length", to_string(0)) \o CRLF
    \o CRLF \o CRLF

raw_response(body, payload_type, wellformed) ==
    VersionLine \o HeaderLine("WARC-Type", <<"response">>)
    \o (IF payload_type # "None"
        THEN HeaderLine("WARC-Identified-Payload-Type", <<PayloadDisplay(payload_type)>>)
        ELSE <<>>)
    \o (IF wellformed
        THEN HeaderLine("Content-Length", to_string(Len(body) + 4)) \o CRLF
             \o CRLF \o CRLF \o body
        ELSE HeaderLine("Content-Length", to_string(1)) \o CRLF \o <<"x">>)
    \o CRLF \o CRLF

raw_metadata(fetch_time_ms, wellformed) ==
    VersionLine \o HeaderLine("WARC-Type", <<"metadata">>)
    \o (LET body == IF wellformed
                    THEN <<"fetchTimeMs", COLON, SP>> \o to_string(fetch_time_ms)
                    ELSE <<"x">>
        IN HeaderLine("Content-Length", to_string(Len(body))) \o CRLF \o body)
    \o CRLF \o CRLF

\* WarcWriter::write: the bytes appended for one record.
write(record) ==
    raw_request(record.url, TRUE)
    \o raw_response(record.body, record.payload_type, TRUE)
    \o raw_metadata(record.fetch_time_ms, TRUE)

\* The index of the first c in s, 0 when there is none (str::find).
find(s, c) ==
    IF \E i \in 1..Len(s) : s[i] = c
    THEN CHOOSE i \in 1..Len(s) : s[i] = c /\ \A j \in 1..(i - 1) : s[j] # c
    ELSE 0

\* BufRead::read_line: up to and including the next line feed, or all that
\* is left.
split_line(buf, i) ==
    IF i = 0 THEN [line |-> buf, rest |-> <<>>]
    ELSE [line |-> SubSeq(buf, 1, i), rest |-> SubSeq(buf, i + 1, Len(buf))]

read_line(buf) == split_line(buf, find(buf, LF))

RECURSIVE rtrim(_)
rtrim(s) ==
    IF s # <<>> /\ s[Len(s)] \in Whitespace THEN rtrim(SubSeq(s, 1, Len(s) - 1)) ELSE s

RECURSIVE ltrim(_)
ltrim(s) == IF s # <<>> /\ Head(s) \in Whitespace THEN ltrim(Tail(s)) ELSE s

trim(s) == ltrim(rtrim(s))

strip_suffix(v) ==
    IF Len(v) >= 2 /\ SubSeq(v, Len(v) - 1, Len(v)) = CRLF THEN SubSeq(v, 1, Len(v) - 2)
    ELSE IF v # <<>> /\ v[Len(v)] = LF THEN SubSeq(v, 1, Len(v) - 1)
    ELSE v

strip_prefix_all(v) == ltrim(v)
strip_prefix(v) == IF v # <<>> /\ Head(v) = SP THEN Tail(v) ELSE v

\* BTreeMap of the header: pairs <<key, value>>, one per key.
insert(header, key, value) == {p \in header : p[1] # key} \cup {<<key, value>>}
contains_key(header, key) == \E p \in header : p[1] = key
get(header, key) == (CHOOSE p \in header : p[1] = key)[2]

\* The header loop of next_raw: lines up to the blank line (or the end of
\* the input); a line without a colon is an error.  The key is what stands
\* before the first colon, in upper case; the value is what follows it,
\* without the line ending and without one leading space.
RECURSIVE read_header(_, _)
header_entry(l, semi, header) ==
    IF semi = 0
    THEN [err |-> TRUE, header |-> header, rest |-> l.rest]
    ELSE read_header(l.rest,
                     insert(header,
                            [i \in 1..(semi - 1) |-> to_uppercase(l.line[i])],
                            strip_prefix(strip_suffix(SubSeq(l.line, semi + 1, Len(l.line))))))

header_line(l, header) ==
    IF l.line = CRLF \/ l.line = <<>>
    THEN [err |-> FALSE, header |-> header, rest |-> l.rest]
    ELSE header_entry(l, find(l.line, COLON), header)

read_header(buf, header) == header_line(read_line(buf), header)

RawNone(rest) == [tag |-> "none", header |-> {}, content |-> <<>>, rest |-> rest]
RawErr(rest) == [tag |-> "err", header |-> {}, content |-> <<>>, rest |-> rest]

\* RecordIterator::next_raw: None at the end of the input, an error for a
\* raw record that breaks the frame, the header and the content otherwise.
\* A failed read_exact has consumed what was left.
raw_ending(header, content, after) ==
    IF Len(after) < 4 THEN RawErr(<<>>)
    ELSE IF SubSeq(after, 1, 4) # CRLF \o CRLF THEN RawErr(SubSeq(after, 5, Len(after)))
    ELSE [tag |-> "ok", header |-> header, content |-> content,
          rest |-> SubSeq(after, 5, Len(after))]

raw_content(h, content_len) ==
    IF Len(h.rest) < content_len THEN RawErr(<<>>)
    ELSE raw_ending(h.header, SubSeq(h.rest, 1, content_len),
                    SubSeq(h.rest, content_len + 1, Len(h.rest)))

raw_after_header(h) ==
    IF h.err THEN RawErr(h.rest)
    ELSE IF ~contains_key(h.header, <<"CONTENT-LENGTH">>) THEN RawErr(h.rest)
    ELSE IF ~is_number(get(h.header, <<"CONTENT-LENGTH">>)) THEN RawErr(h.rest)
    ELSE raw_content(h, parse(get(h.header, <<"CONTENT-LENGTH">>)))

is_warc_version(version) == version # <<>> /\ to_uppercase(version[1]) = "WARC/1.0"

raw_after_version(v) ==
    IF v.line = <<>> THEN RawNone(v.rest)
    ELSE IF ~is_warc_version(rtrim(v.line)) THEN RawErr(v.rest)
    ELSE raw_after_header(read_header(v.rest, {}))

next_raw(buf) == raw_after_version(read_line(buf))

\* The index at which the first "\r\n\r\n" of s starts, 0 when there is
\* none (str::split_once).
find_blank_line(s) ==
    IF \E i \in 1..(Len(s) - 3) : SubSeq(s, i, i + 3) = CRLF \o CRLF
    THEN CHOOSE i \in 1..(Len(s) - 3) :
            /\ SubSeq(s, i, i + 3) = CRLF \o CRLF
            /\ \A j \in 1..(i - 1) : SubSeq(s, j, j + 3) # CRLF \o CRLF
    ELSE 0

\* Request::from_raw, Response::from_raw, Metadata::from_raw: a sequence
\* holding the parsed value, empty for an error.  The content the writer
\* produces is valid UTF-8, which decode_string returns as it is.
RequestFromRaw(raw) ==
    IF contains_key(raw.header, <<"WARC-TARGET-URI">>)
    THEN <<get(raw.header, <<"WARC-TARGET-URI">>)>>
    ELSE <<>>

split_once(raw, i) ==
    IF i = 0 THEN <<>>
    ELSE <<[body |-> SubSeq(raw.content, i + 4, Len(raw.content)),
            payload_type |->
                IF contains_key(raw.header, <<"WARC-IDENTIFIED-PAYLOAD-TYPE">>)
                THEN from_str(get(raw.header, <<"WARC-IDENTIFIED-PAYLOAD-TYPE">>))
                ELSE "None"]>>

ResponseFromRaw(raw) == split_once(raw, find_blank_line(raw.content))

RECURSIVE MetadataFromRaw(_)
metadata_value(value) == IF is_number(value) THEN <<parse(value)>> ELSE <<>>

metadata_field(l, semi) ==
    IF l.line = <<>> THEN <<>>
    ELSE IF semi # 0 /\ SubSeq(l.line, 1, semi - 1) = <<"fetchTimeMs">>
    THEN metadata_value(trim(SubSeq(l.line, semi + 1, Len(l.line))))
    ELSE MetadataFromRaw(l.rest)

metadata_line(l) == metadata_field(l, find(l.line, COLON))

MetadataFromRaw(content) == metadata_line(read_line(content))

NoRecord == [url |-> <<>>, body |-> <<>>, payload_type |-> "None", fetch_time_ms |-> 0]
ItemNone(rest) == [tag |-> "none", record |-> NoRecord, rest |-> rest]
ItemErr(rest) == [tag |-> "err", record |-> NoRecord, rest |-> rest]

starts_with(header, key, prefix) == get(header, key) # <<>> /\ get(header, key)[1] = prefix

IsResponse(warc_type) == warc_type \in {<<"response">>, <<"revisit">>}

\* The loop of RecordIterator::next: raw records are read until a request,
\* a response and a metadata record are held; the first error ends the call.
RECURSIVE next_loop(_, _, _, _)
on_parsed(rest, warc_type, request, response, metadata) ==
    IF \/ warc_type = <<"request">> /\ request = <<>>
       \/ IsResponse(warc_type) /\ response = <<>>
       \/ warc_type = <<"metadata">> /\ metadata = <<>>
    THEN ItemErr(rest)
    ELSE IF request # <<>> /\ response # <<>> /\ metadata # <<>>
    THEN [tag |-> "ok",
          record |-> [url |-> request[1], body |-> response[1].body,
                      payload_type |-> response[1].payload_type,
                      fetch_time_ms |-> metadata[1]],
          rest |-> rest]
    ELSE next_loop(rest, request, response, metadata)

on_record(item, warc_type, request, response, metadata) ==
    IF /\ contains_key(item.header, <<"CONTENT-TYPE">>)
       /\ \/ /\ IsResponse(warc_type)
             /\ ~starts_with(item.header, <<"CONTENT-TYPE">>, "application/http")
          \/ /\ warc_type = <<"metadata">>
             /\ ~starts_with(item.header, <<"CONTENT-TYPE">>, "application/warc-fields")
    THEN next_loop(item.rest, request, response, metadata)
    ELSE IF \/ warc_type = <<"request">> /\ request # <<>>
            \/ IsResponse(warc_type) /\ response # <<>>
            \/ warc_type = <<"metadata">> /\ metadata # <<>>
    THEN ItemErr(item.rest)
    ELSE on_parsed(item.rest, warc_type,
                   IF warc_type = <<"request">> THEN RequestFromRaw(item) ELSE request,
                   IF IsResponse(warc_type) THEN ResponseFromRaw(item) ELSE response,
                   IF warc_type = <<"metadata">> THEN MetadataFromRaw(item.content)
                   ELSE metadata)

on_item(item, request, response, metadata) ==
    IF item.tag = "none" THEN ItemNone(item.rest)
    ELSE IF item.tag = "err" THEN ItemErr(item.rest)
    ELSE on_record(item,
                   IF contains_key(item.header, <<"WARC-TYPE">>)
                   THEN get(item.header, <<"WARC-TYPE">>) ELSE <<>>,
                   request, response, metadata)

next_loop(buf, request, response, metadata) ==
    on_item(next_raw(buf), request, response, metadata)

\* RecordIterator::next: the first call skips the warcinfo record, and ends
\* the iteration if there is none; num_reads counts the calls past it.
skip_warc_info(info) ==
    IF info.tag # "ok" THEN [item |-> ItemNone(info.rest), num_reads |-> 0]
    ELSE [item |-> next_loop(info.rest, <<>>, <<>>, <<>>), num_reads |-> 1]

next(buf, num_reads) ==
    IF num_reads = 0 THEN skip_warc_info(next_raw(buf))
    ELSE [item |-> next_loop(buf, <<>>, <<>>, <<>>), num_reads |-> num_reads + 1]

\* The records of the model: URLs with a leading space, a colon, a trailing
\* carriage return, a line feed; bodies that are empty, hold a blank line
\* or a lone line feed; every payload type and none; two records of one URL.
WarcRecordKinds ==
    { [url |-> <<"a">>, body |-> <<"x">>, payload_type |-> "Html", fetch_time_ms |-> 7],
      [url |-> <<"a">>, body |-> <<"y", CR, LF, CR, LF, "x">>, payload_type |-> "None",
       fetch_time_ms |-> 0],
      [url |-> <<SP, "b", COLON, "c">>, body |-> <<>>, payload_type |-> "Pdf",
       fetch_time_ms |-> 0],
      [url |-> <<"b", CR>>, body |-> <<LF>>, payload_type |-> "Rss", fetch_time_ms |-> 7],
      [url |-> <<"c">>, body |-> <<"x">>, payload_type |-> "Atom", fetch_time_ms |-> 0],
      [url |-> <<"a", LF, "b">>, body |-> <<"x">>, payload_type |-> "Html",
       fetch_time_ms |-> 7] }

\* The records of a file given to the reader with one malformed raw record.
WarcFileKinds == {r \in WarcRecordKinds : r.url \in {<<"a">>, <<"c">>}}

Parts == {"request", "response", "metadata"}

\* A file of the triples of input in which the raw record part of triple i
\* is malformed.
RECURSIVE FileFrom(_, _, _, _)
FileFrom(input, k, i, part) ==
    IF k > Len(input) THEN <<>>
    ELSE raw_request(input[k].url, ~(k = i /\ part = "request"))
         \o raw_response(input[k].body, input[k].payload_type, ~(k = i /\ part = "response"))
         \o raw_metadata(input[k].fetch_time_ms, ~(k = i /\ part = "metadata"))
         \o FileFrom(input, k + 1, i, part)

\* md5::compute: the digest of a URL; distinct URLs of the model have
\* distinct digests.
md5(url) == <<"md5">> \o url

contains_never(seen_url_hashes, url_hash) == FALSE
contains(seen_url_hashes, url_hash) == url_hash \in seen_url_hashes

InitWarc ==
    /\ RpcInit /\ DhtSideIdle /\ CoordIdle /\ IdxIdle /\ MrgIdle /\ SrIdle /\ AuxIdle
    /\ \E mode \in {"write", "dedup", "file"},
          input \in SeqsUpTo(WarcRecordKinds, MaxWarcLen),
          i \in 0..MaxWarcLen, part \in Parts \cup {"none"} :
          /\ IF mode = "file"
             THEN /\ i \in 1..Len(input) /\ part \in Parts
                  /\ \A k \in 1..Len(input) : input[k] \in WarcFileKinds
             ELSE i = 0 /\ part = "none"
          /\ warc = [mode |-> mode, input |-> input, malformed |-> <<i, part>>,
                     wpos |-> 0, num_writes |-> 0, seen_url_hashes |-> {},
                     kept |-> <<>>,
                     bytes |-> IF mode = "file"
                               THEN warc_info \o FileFrom(input, 1, i, part)
                               ELSE warc_info,
                     pc |-> IF mode = "file" THEN "read" ELSE "write",
                     rest |-> IF mode = "file"
                              THEN warc_info \o FileFrom(input, 1, i, part)
                              ELSE <<>>,
                     num_reads |-> 0, items |-> <<>>]

\* WarcWriter::write on the next record of the input.
WarcWrite ==
    /\ warc # <<>> /\ warc.mode = "write" /\ warc.pc = "write"
    /\ warc.wpos < Len(warc.input)
    /\ LET record == warc.input[warc.wpos + 1]
       IN warc' = [warc EXCEPT !.wpos = @ + 1, !.bytes = @ \o write(record),
                               !.num_writes = @ + 1, !.kept = Append(@, record)]
    /\ UNCHANGED nonWarcVars

\* DeduplicatedWarcWriter::write on the next record of the input.
DedupWrite ==
    /\ warc # <<>> /\ warc.mode = "dedup" /\ warc.pc = "write"
    /\ warc.wpos < Len(warc.input)
    /\ LET record == warc.input[warc.wpos + 1]
           url_hash == md5(record.url)
       IN IF contains(warc.seen_url_hashes, url_hash)
          THEN warc' = [warc EXCEPT !.wpos = @ + 1]
          ELSE warc' = [warc EXCEPT !.wpos = @ + 1,
                                    !.seen_url_hashes = @ \cup {url_hash},
                                    !.bytes = @ \o write(record),
                                    !.num_writes = @ + 1, !.kept = Append(@, record)]
    /\ UNCHANGED nonWarcVars

\* finish, and WarcFile::records on the bytes it returns.
WarcFinish ==
    /\ warc # <<>> /\ warc.pc = "write" /\ warc.wpos = Len(warc.input)
    /\ warc' = [warc EXCEPT !.pc = "read", !.rest = warc.bytes]
    /\ UNCHANGED nonWarcVars

\* One call of next on the record iterator.
after_next(r) ==
    [warc EXCEPT !.rest = r.item.rest, !.num_reads = r.num_reads,
                 !.pc = IF r.item.tag = "none" THEN "end" ELSE "read",
                 !.items = IF r.item.tag = "none" THEN @
                           ELSE Append(@, [tag |-> r.item.tag, record |-> r.item.record])]

WarcRead ==
    /\ warc # <<>> /\ warc.pc = "read"
    /\ warc' = after_next(next(warc.rest, warc.num_reads))
    /\ UNCHANGED nonWarcVars

WarcNext == WarcWrite \/ DedupWrite \/ WarcFinish \/ WarcRead

SpecWarc == InitWarc /\ [][WarcNext]_vars

\* The items a reader yields for these records, one Ok item each.
Expected(records) == [k \in 1..Len(records) |-> [tag |-> "ok", record |-> records[k]]]

HasLineFeed(url) == \E j \in 1..Len(url) : url[j] = LF

WarcItemsPrefix(records) ==
    /\ Len(warc.items) <= Len(records)
    /\ warc.items = SubSeq(Expected(records), 1, Len(warc.items))

\* C26 as stated, for every list of records: what is read back from the
\* bytes of a WarcWriter is, item by item, the list that was written, with
\* no error item and nothing after the last record.
C26_RoundTrip ==
    (warc # <<>> /\ warc.mode = "write") =>
        /\ WarcItemsPrefix(warc.input)
        /\ warc.pc = "end" => warc.items = Expected(warc.input)

\* C26 (amended): the same for every list of records whose URLs hold no line
\* feed; bodies are arbitrary.
C26_RoundTripWithoutLineFeed ==
    (/\ warc # <<>> /\ warc.mode = "write"
     /\ \A k \in 1..Len(warc.input) : ~HasLineFeed(warc.input[k].url)) =>
        /\ WarcItemsPrefix(warc.input)
        /\ warc.pc = "end" => warc.items = Expected(warc.input)

\* Three records read back: a URL with a leading space and a colon, a body
\* holding a blank line, a body that is a lone line feed.
C26_Witness ==
    /\ warc # <<>> /\ warc.mode = "write" /\ warc.pc = "end"
    /\ Len(warc.input) = 3 /\ warc.items = Expected(warc.input)
    /\ warc.input[1].url = <<SP, "b", COLON, "c">>
    /\ warc.input[2].body = <<"y", CR, LF, CR, LF, "x">>
    /\ warc.input[3].body = <<LF>>

\* The records but the i-th.
OtherTriples(records, i) ==
    [k \in 1..(Len(records) - 1) |-> IF k < i THEN records[k] ELSE records[k + 1]]

IsOk(item) == item.tag = "ok"

\* C27: when one raw record of triple i is malformed, the reader yields one
\* error for that triple, and every other triple of the file once, each
\* with its own request, response and metadata.
C27_ErrorForThatTripleOnly ==
    (warc # <<>> /\ warc.mode = "file" /\ warc.pc = "end") =>
        /\ Len(warc.items) = Len(warc.input)
        /\ ~IsOk(warc.items[warc.malformed[1]])
        /\ SelectSeq(warc.items, IsOk) = Expected(OtherTriples(warc.input, warc.malformed[1]))

\* The records a deduplicating writer keeps of the first n of the input:
\* of every URL the first.
RECURSIVE FirstWritten(_, _)
FirstWritten(input, n) ==
    IF n = 0 THEN <<>>
    ELSE IF \E j \in 1..(n - 1) : input[j].url = input[n].url
    THEN FirstWritten(input, n - 1)
    ELSE Append(FirstWritten(input, n - 1), input[n])

\* C28: after any sequence of writes through a DeduplicatedWarcWriter,
\* num_writes is the number of distinct URLs written, the records kept are
\* the first of each URL, and they are what the bytes hold.
C28_WritesFirstOfEachUrl ==
    (warc # <<>> /\ warc.mode = "dedup") =>
        /\ warc.num_writes = Cardinality({warc.input[k].url : k \in 1..warc.wpos})
        /\ warc.kept = FirstWritten(warc.input, warc.wpos)
        /\ (/\ warc.pc = "end"
            /\ \A k \in 1..Len(warc.input) : ~HasLineFeed(warc.input[k].url)) =>
               warc.items = Expected(FirstWritten(warc.input, Len(warc.input)))

\* Two records of one URL and one of another: two writes, the first kept.
C28_Witness ==
    /\ warc # <<>> /\ warc.mode = "dedup" /\ warc.pc = "end"
    /\ Len(warc.input) = 3 /\ warc.num_writes = 2
    /\ warc.input[1].url = <<"a">> /\ warc.input[2].url = <<"a">>
    /\ warc.input[1].body # warc.input[2].body
    /\ warc.input[3].url = <<"c">>
    /\ warc.items = Expected(<<warc.input[1], warc.input[3]>>)

(***************************************************************************)
(* IntMap (intmap.rs) with u64 keys.                                       *)
(***************************************************************************)
MaxMapKey == 4
MaxMapCap == 2
MapKeys == 0..MaxMapKey
MapValues == {1, 2}

\* Key::BIG_PRIME for u64, 11400714819323198549 = 0x9E37_79B9_7F4A_7C15.
BIG_PRIME == <<31765, 32586, 31161, 40503>>

\* u64::wrapping_mul of a u64 by a key below 2^15: the product modulo 2^64.
mul_limbs(a, k, c1, c2, c3) ==
    <<c1 % Limb, c2 % Limb, c3 % Limb, (a[4] * k + (c3 \div Limb)) % Limb>>

wrapping_mul(a, k) ==
    mul_limbs(a, k, a[1] * k,
              a[2] * k + ((a[1] * k) \div Limb),
              a[3] * k + ((a[2] * k + ((a[1] * k) \div Limb)) \div Limb))

\* Key::modulus_usize: the u64 modulo rhs, for 0 < rhs < 2^15.
modulus_usize(x, rhs) ==
    ((((((x[4] % rhs) * Limb + x[3]) % rhs) * Limb + x[2]) % rhs) * Limb + x[1]) % rhs

\* IntMap::bin_idx, for a map with num_bins > 0 bins.
bin_idx(key, num_bins) == modulus_usize(wrapping_mul(BIG_PRIME, key), num_bins)

\* slice::sort_unstable_by on the keys of a bin whose keys are distinct.
sort_unstable_by_none(bin) == bin
sort_unstable_by(bin) ==
    [i \in 1..Len(bin) |->
        CHOOSE e \in Range(bin) : Cardinality({f \in Range(bin) : f.key < e.key}) = i - 1]

\* (self.bins.len() as f64 * 1.5) as usize
grown_same(num_bins) == num_bins
grown(num_bins) == (num_bins * 3) \div 2

\* IntMap::grow: new bins, every entry pushed to the bin of its key, every
\* bin sorted.
rehash(entries, num_bins) ==
    [j \in 1..num_bins |->
        sort_unstable_by(SelectSeq(entries, LAMBDA e : bin_idx(e.key, num_bins) = j - 1))]

grow(bins) == rehash(Flat(bins), grown(Len(bins)))

\* slice::binary_search_by on the keys of bin[lo..hi]: the value found, 0
\* for Err.
RECURSIVE binary_search_by(_, _, _, _)
binary_search_by(bin, key, lo, hi) ==
    IF lo > hi THEN 0
    ELSE IF bin[(lo + hi) \div 2].key = key THEN bin[(lo + hi) \div 2].value
    ELSE IF bin[(lo + hi) \div 2].key < key
    THEN binary_search_by(bin, key, ((lo + hi) \div 2) + 1, hi)
    ELSE binary_search_by(bin, key, lo, ((lo + hi) \div 2) - 1)

\* IntMap::get on a map with at least one bin: the value, 0 for None.
map_get(bins, key) ==
    binary_search_by(bins[bin_idx(key, Len(bins)) + 1], key, 1,
                     Len(bins[bin_idx(key, Len(bins)) + 1]))

\* The part of IntMap::insert after the growth step.
store_entry(m, bins, key, value, b) ==
    IF \E i \in 1..Len(bins[b]) : bins[b][i].key = key
    THEN [m EXCEPT !.bins = [bins EXCEPT ![b] =
                        [i \in 1..Len(@) |-> IF @[i].key = key
                                             THEN [key |-> key, value |-> value]
                                             ELSE @[i]]]]
    ELSE [m EXCEPT !.bins = [bins EXCEPT ![b] =
                        sort_unstable_by(Append(@, [key |-> key, value |-> value]))],
                   !.len = @ + 1]

insert_entry(m, bins, key, value) ==
    IF bins = <<>> THEN [m EXCEPT !.panicked = TRUE]
    ELSE store_entry(m, bins, key, value, bin_idx(key, Len(bins)) + 1)

\* IntMap::insert; with no bin the index of the bin is a remainder by zero,
\* which panics.
map_insert(m, key, value) ==
    insert_entry([m EXCEPT !.op = "insert", !.len_before = m.len,
                           !.before = Len(m.bins),
                           !.last[key] = value],
                 IF m.len >= grown(Len(m.bins)) THEN grow(m.bins) ELSE m.bins,
                 key, value)

\* IntMap::with_capacity(cap); new() is with_capacity(2).
with_capacity(cap, origin) ==
    [bins |-> [j \in 1..cap |-> <<>>], len |-> 0, panicked |-> FALSE,
     origin |-> origin, op |-> "none", len_before |-> 0, before |-> cap,
     last |-> [k \in MapKeys |-> 0]]

\* A map from new(), from with_capacity(cap), or at the start of from_iter
\* on an iterator with the upper size hint cap.
InitMap ==
    /\ RpcInit /\ DhtSideIdle /\ CoordIdle /\ IdxIdle /\ MrgIdle /\ WarcIdle /\ SrIdle
    /\ DlIdle /\ CmtIdle
    /\ \E origin \in {"new", "with_capacity", "from_iter"}, cap \in 0..MaxMapCap :
          /\ origin = "new" => cap = 2
          /\ imap = with_capacity(cap, origin)

MapInsert(key, value) ==
    /\ imap # <<>> /\ ~imap.panicked
    /\ imap' = map_insert(imap, key, value)
    /\ UNCHANGED nonMapVars

MapNext == \E key \in MapKeys, value \in MapValues : MapInsert(key, value)

SpecMap == InitMap /\ [][MapNext]_vars

MapLive == imap # <<>> /\ ~imap.panicked

\* C31: on a map created with new(), after any sequence of inserts, get(k)
\* is the value of the most recent insert for k, None (0) for a key never
\* inserted, and len is the number of distinct keys inserted.
C31_GetReturnsLastInsert ==
    (imap # <<>> /\ imap.origin = "new") =>
        /\ ~imap.panicked
        /\ \A k \in MapKeys : map_get(imap.bins, k) = imap.last[k]
        /\ imap.len = Cardinality({k \in MapKeys : imap.last[k] # 0})

\* Every key inserted, two growth steps behind, a value overwritten.
C31_Witness ==
    /\ imap # <<>> /\ imap.origin = "new" /\ imap.len = MaxMapKey + 1
    /\ Len(imap.bins) >= 4
    /\ imap.op = "insert" /\ imap.len_before = imap.len
    /\ imap.last[0] = 2 /\ imap.last[1] = 1

\* Every entry sits in the bin of its key, and every bin is strictly
\* ascending by key.
BinsInOrder ==
    \A j \in 1..Len(imap.bins) :
        /\ \A i \in 1..Len(imap.bins[j]) :
              bin_idx(imap.bins[j][i].key, Len(imap.bins)) = j - 1
        /\ \A i \in 1..(Len(imap.bins[j]) - 1) :
              imap.bins[j][i].key < imap.bins[j][i + 1].key

\* The insert that just returned was called with len >= 1.5 * |bins|.
CalledWhenFull == imap.op = "insert" /\ 2 * imap.len_before >= 3 * imap.before

\* C34 as stated, for every map with a bin: bins hold their keys in order, and an
\* insert called with len >= 1.5 * |bins| leaves more bins than it found,
\* 1.5 times as many (rounded down).
C34_BinsSortedAndGrown ==
    (MapLive /\ imap.before >= 1) =>
        /\ BinsInOrder
        /\ CalledWhenFull =>
              /\ Len(imap.bins) = (3 * imap.before) \div 2
              /\ Len(imap.bins) > imap.before

\* C34 (amended): the bins hold their keys in order in every map; the
\* growth is to 1.5 times the bins rounded down, which is more bins when
\* there were at least two, as in every map from new().
C34_BinsSortedAndGrownFromTwo ==
    MapLive =>
        /\ BinsInOrder
        /\ CalledWhenFull =>
              /\ Len(imap.bins) = (3 * imap.before) \div 2
              /\ imap.before >= 2 => Len(imap.bins) > imap.before
        /\ imap.origin = "new" => imap.before >= 2

\* An insert that found three bins and four entries and left four bins, one
\* of them with two entries.
C34_Witness ==
    /\ MapLive /\ imap.op = "insert" /\ imap.before = 3 /\ imap.len_before = 4
    /\ Len(imap.bins) = 4
    /\ \E j \in 1..4 : Len(imap.bins[j]) >= 2

\* C37: every map has at least one bin, so no operation takes a remainder
\* by zero.
C37_AtLeastOneBin == imap # <<>> => (Len(imap.bins) >= 1 /\ ~imap.panicked)

(***************************************************************************)
(* Job::process (indexer/job.rs): the inserts and the commits of one job.  *)
(* The records are those left by the two filters; of a chunk of them the   *)
(* worker prepares some pages, and every prepared page is inserted.        *)
(***************************************************************************)
MaxCmtRecords == 5
MaxBatchSize == 3
MaxThreshold == 3

Min(a, b) == IF a < b THEN a ELSE b
Max(a, b) == IF a < b THEN b ELSE a

\* num_inserts_since_commit >= self.settings.autocommit_after_num_inserts
should_commit_late(since, autocommit) == since > autocommit
should_commit(since, autocommit) == since >= autocommit

InitCmt ==
    /\ RpcInit /\ DhtSideIdle /\ CoordIdle /\ IdxIdle /\ MrgIdle /\ WarcIdle /\ SrIdle
    /\ MapIdle /\ DlIdle
    /\ \E n \in 0..MaxCmtRecords, b \in 1..MaxBatchSize, a \in 0..MaxThreshold :
          cmt = [records |-> n, batch_size |-> b, autocommit |-> a, pc |-> "chunk",
                 prepared |-> 0, num_inserts_since_commit |-> 0,
                 inserted |-> 0, committed |-> 0, commits |-> 0,
                 since_before |-> 0, peak |-> 0, op |-> "none"]

\* The next chunk of at most batch_size records, and the pages prepared of
\* it; after the last chunk, the final commit.
CmtChunk ==
    /\ cmt # <<>> /\ cmt.pc = "chunk" /\ cmt.records > 0
    /\ \E pages \in 0..Min(cmt.batch_size, cmt.records) :
          cmt' = [cmt EXCEPT !.records = @ - Min(cmt.batch_size, cmt.records),
                             !.prepared = pages, !.pc = "insert", !.op = "chunk"]
    /\ UNCHANGED nonCmtVars

\* index.insert of the next prepared page; an error of insert panics.
CmtInsert ==
    /\ cmt # <<>> /\ cmt.pc = "insert" /\ cmt.prepared > 0
    /\ \/ cmt' = [cmt EXCEPT !.prepared = @ - 1, !.inserted = @ + 1,
                             !.since_before = cmt.num_inserts_since_commit,
                             !.peak = Max(@, cmt.num_inserts_since_commit),
                             !.num_inserts_since_commit = @ + 1, !.op = "insert"]
       \/ cmt' = [cmt EXCEPT !.pc = "panic", !.op = "panic"]
    /\ UNCHANGED nonCmtVars

\* The test after the pages of a chunk.
CmtCheck ==
    /\ cmt # <<>> /\ cmt.pc = "insert" /\ cmt.prepared = 0
    /\ IF should_commit(cmt.num_inserts_since_commit, cmt.autocommit)
       THEN cmt' = [cmt EXCEPT !.committed = cmt.inserted, !.commits = @ + 1,
                               !.num_inserts_since_commit = 0,
                               !.pc = "chunk", !.op = "commit"]
       ELSE cmt' = [cmt EXCEPT !.pc = "chunk", !.op = "check"]
    /\ UNCHANGED nonCmtVars

\* The commit after the loop.
CmtFinal ==
    /\ cmt # <<>> /\ cmt.pc = "chunk" /\ cmt.records = 0
    /\ cmt' = [cmt EXCEPT !.committed = cmt.inserted, !.commits = @ + 1,
                          !.pc = "done", !.op = "final"]
    /\ UNCHANGED nonCmtVars

CmtNext == CmtChunk \/ CmtInsert \/ CmtCheck \/ CmtFinal

SpecCmt == InitCmt /\ [][CmtNext]_vars

BackoffBaseMillis == 10
BackoffLimitMillis == 30000
MaxAttempts == 35

WarcSources == {"HTTP", "Local", "S3"}

\* The delay the backoff yields after the delay current (0 before the
\* first).
backoff_next(current) ==
    IF current = 0 THEN BackoffBaseMillis
    ELSE IF current * BackoffBaseMillis > BackoffLimitMillis THEN BackoffLimitMillis
    ELSE current * BackoffBaseMillis

\* .take(35): the iterator of delays has ended.
taken_late(attempts) == attempts > MaxAttempts
taken(attempts) == attempts >= MaxAttempts

InitDl ==
    /\ RpcInit /\ DhtSideIdle /\ CoordIdle /\ IdxIdle /\ MrgIdle /\ WarcIdle /\ SrIdle
    /\ MapIdle /\ CmtIdle
    /\ \E source \in WarcSources :
          dl = [source |-> source, pc |-> "try", attempts |-> 0, delays |-> <<>>]

\* One pass of the loop: the attempt succeeds and the function returns Ok,
\* or it fails and the thread sleeps for the delay.
DlAttempt ==
    /\ dl # <<>> /\ dl.pc = "try" /\ ~taken(dl.attempts)
    /\ \/ dl' = [dl EXCEPT !.attempts = @ + 1, !.pc = "ok"]
       \/ dl' = [dl EXCEPT !.attempts = @ + 1,
                           !.delays = Append(@, backoff_next(IF dl.delays = <<>> THEN 0
                                                             ELSE dl.delays[Len(dl.delays)]))]
    /\ UNCHANGED nonDlVars

\* The delays are used up: Err(DownloadFailed).
DlGiveUp ==
    /\ dl # <<>> /\ dl.pc = "try" /\ taken(dl.attempts)
    /\ dl' = [dl EXCEPT !.pc = "failed"]
    /\ UNCHANGED nonDlVars

DlNext == DlAttempt \/ DlGiveUp

SpecDl == InitDl /\ [][DlNext]_vars

\* The loop is run by one thread, and every attempt returns.
SpecDlFair == SpecDl /\ WF_vars(DlNext)

DlSafe ==
    dl # <<>> =>
        /\ dl.attempts <= MaxAttempts
        /\ dl.pc = "ok" => Len(dl.delays) = dl.attempts - 1
        /\ dl.pc = "failed" => dl.attempts = MaxAttempts /\ Len(dl.delays) = MaxAttempts
        /\ \A i \in 1..Len(dl.delays) :
              /\ dl.delays[i] <= BackoffLimitMillis
              /\ i = 1 => dl.delays[i] = BackoffBaseMillis
              /\ i > 1 => \/ dl.delays[i] = BackoffBaseMillis * dl.delays[i - 1]
                          \/ /\ dl.delays[i] = BackoffLimitMillis
                             /\ BackoffBaseMillis * dl.delays[i - 1] > BackoffLimitMillis

\* C33: download_into_buf returns; Ok at the first attempt that succeeds,
\* with every attempt before it failed and none after it, DownloadFailed
\* after exactly 35 failed attempts; the delays start at 10 ms, grow
\* tenfold and never exceed 30 s.
C33_DownloadTerminates ==
    /\ []DlSafe
    /\ [][dl.pc # "try" => dl' = dl]_vars
    /\ <>(dl # <<>> /\ dl.pc # "try")

\* Every attempt failed: 35 attempts, the fifth delay and all later ones at
\* the limit.
C33_Witness ==
    /\ dl # <<>> /\ dl.pc = "failed" /\ dl.attempts = 35
    /\ dl.delays[4] = 10000 /\ dl.delays[5] = 30000 /\ dl.delays[35] = 30000


====
